---- MODULE Spec2Model ----
(***************************************************************************)
(* Model of the simulation engine of prosim-cloud                          *)
(* (backend/app/services/dwsim_engine.py): the tier selection of           *)
(* DWSIMEngine.simulate, the Kahn ordering of _topological_sort and the    *)
(* per-node loop of _simulate_basic.                                       *)
(*                                                                         *)
(* Node ids are modelled as the integers 1..MaxNodes; the empty string "" *)
(* (the default of node.get("id", "")) is the integer EmptyId.  A Python   *)
(* set is modelled by a TLA+ set together with the order in which the      *)
(* interpreter iterates it; that order is not fixed by the language, so    *)
(* every iteration draws an arbitrary permutation.                         *)
(***************************************************************************)
EXTENDS Integers, Sequences, FiniteSets, TLC

\* ---------------------------------------------------------------- bounds
MaxNodes == 3
MaxEdges == 3
MaxRunNodes == 3
MaxRunEdges == 2
\* edges of a flowsheet whose port handles vary
MaxWireEdges == 2

\* upstream nodes of the unit operation of a unit-level run
MaxInlets == 2

\* ------------------------------------------------------------- constants
EmptyId == 0

EQUIPMENT_TYPE_MAP ==
    {"Mixer", "Splitter", "Heater", "Cooler", "Separator", "Pump", "Compressor",
     "Valve", "HeatExchanger", "DistillationColumn", "CSTRReactor", "PFRReactor",
     "ConversionReactor"}

NodeIds == 1..MaxNodes

\* ------------------------------------------------------------ utilities
Range(s) == {s[k] : k \in DOMAIN s}

Perms(S) == {s \in [1..Cardinality(S) -> S] : Range(s) = S}

SeqsUpTo(S, n) == UNION {[1..k -> S] : k \in 0..n}

Last(s) == s[Len(s)]

\* The body of [x \in {v} |-> body]: the function gives the name x to the
\* value v, which the body may use more than once
With(f) == f[CHOOSE x \in DOMAIN f : TRUE]

\* ------------------------------------------------------------ arithmetic
\* The engine computes in floats; the model computes in exact rationals
\* <<numerator, denominator>> in lowest terms with a positive denominator.
Abs(x) == IF x < 0 THEN -x ELSE x

RECURSIVE GCD(_, _)
GCD(a, b) == IF b = 0 THEN a ELSE GCD(b, a % b)

Rat(n, d) ==
    LET g == GCD(Abs(n), Abs(d))
        sg == IF d < 0 THEN -1 ELSE 1
    IN  <<(sg * n) \div g, (sg * d) \div g>>

Num(n) == <<n, 1>>

Zero == Num(0)

One == Num(1)

RAdd(a, b) ==
    LET g == GCD(a[2], b[2])
    IN  Rat(a[1] * (b[2] \div g) + b[1] * (a[2] \div g), (a[2] \div g) * b[2])

RNeg(a) == <<-a[1], a[2]>>

RSub(a, b) == RAdd(a, RNeg(b))

RMul(a, b) ==
    LET g1 == GCD(Abs(a[1]), b[2])
        g2 == GCD(Abs(b[1]), a[2])
    IN  IF a[1] = 0 \/ b[1] = 0 THEN Zero
        ELSE <<(a[1] \div g1) * (b[1] \div g2), (a[2] \div g2) * (b[2] \div g1)>>

\* b is not zero
RDiv(a, b) == RMul(a, IF b[1] < 0 THEN <<-b[2], -b[1]>> ELSE <<b[2], b[1]>>)

\* a < b: by the integer parts, and by the fractional parts when these agree
RLt(a, b) ==
    LET fa == a[1] \div a[2]
        fb == b[1] \div b[2]
        g == GCD(a[2], b[2])
    IN  IF fa # fb THEN fa < fb
        ELSE (a[1] - fa * a[2]) * (b[2] \div g) < (b[1] - fb * b[2]) * (a[2] \div g)

RLe(a, b) == a = b \/ RLt(a, b)

RMin(a, b) == IF RLt(b, a) THEN b ELSE a

RMax(a, b) == IF RLt(a, b) THEN b ELSE a

\* the sum of f over the finite set S
RECURSIVE RSum(_, _)
RSum(f, S) ==
    IF S = {} THEN Zero
    ELSE LET x == CHOOSE y \in S : TRUE IN RAdd(f[x], RSum(f, S \ {x}))

\* round(x, ndigits) with scale = 10^ndigits: to the nearest multiple of
\* 1/scale, a tie to the even one
Round(x, scale) ==
    With([y \in {RMul(x, Num(scale))} |->
    LET fl == y[1] \div y[2]
        twice == 2 * (y[1] - fl * y[2])
        up == twice > y[2] \/ (twice = y[2] /\ fl % 2 = 1)
    IN  Rat(IF up THEN fl + 1 ELSE fl, scale)])

\* ------------------------------------------------------ unit conversions
\* the offset without its fraction
_c_to_k_whole(t_c) == RAdd(t_c, Num(273))

\* lines 82-105
_c_to_k(t_c) == RAdd(t_c, Rat(27315, 100))

_k_to_c(t_k) == RSub(t_k, Rat(27315, 100))

_kpa_to_pa(p_kpa) == RMul(p_kpa, Num(1000))

_pa_to_kpa(p_pa) == RDiv(p_pa, Num(1000))

_kw_to_w(power_kw) == RMul(power_kw, Num(1000))

_w_to_kw(power_w) == RDiv(power_w, Num(1000))

\* ------------------------------------------------ property lookup tables
\* the compounds of the flowsheets under study, and the pseudo-component
\* the ConversionReactor adds
Compounds == {"water", "methane", "ethane"}

_PSEUDO == {"products"}

\* lines 149-165, 197: the built-in molecular weights (g/mol), to the
\* nearest unit; a name the table does not know weighs as water
_get_mw(c) ==
    CASE c = "water" -> Num(18)
      [] c = "methane" -> Num(16)
      [] c = "ethane" -> Num(30)
      [] OTHER -> Num(18)

\* lines 249-260, 277: J/(kg K)
_CP_TABLE(c) ==
    CASE c = "water" -> Num(4186)
      [] c = "methane" -> Num(2226)
      [] c = "ethane" -> Num(1746)
      [] OTHER -> Num(1800)

\* lines 201-212, 226: J/kg
_HVAP_TABLE(c) ==
    CASE c = "water" -> Num(2260000)
      [] c = "methane" -> Num(510000)
      [] c = "ethane" -> Num(489000)
      [] OTHER -> Num(300000)

\* line 139
_T_REF == Rat(29815, 100)

\* line 141
_CP_WATER == Num(4186)

\* a composition is a function from compound names to mole fractions
CompSum(comp) == RSum(comp, DOMAIN comp)

Normalized(comp) ==
    LET total == CompSum(comp) IN [c \in DOMAIN comp |-> RDiv(comp[c], total)]

\* sum(z * _get_mw(c)): the mixture molecular weight of a composition
MassBasis(comp) ==
    RSum([c \in DOMAIN comp |-> RMul(comp[c], _get_mw(c))], DOMAIN comp)

\* lines 243-280
_estimate_cp(composition) ==
    IF DOMAIN composition = {} THEN _CP_WATER
    ELSE With([total_mass_basis \in {MassBasis(composition)} |->
         IF RLe(total_mass_basis, Zero) THEN _CP_WATER
         ELSE With([total_cp \in {
                     RSum([c \in DOMAIN composition |->
                              RMul(RDiv(RMul(composition[c], _get_mw(c)), total_mass_basis),
                                   _CP_TABLE(c))], DOMAIN composition)} |->
                  IF RLt(Zero, total_cp) THEN total_cp ELSE _CP_WATER])])

\* lines 215-228
_estimate_hvap(composition) ==
    IF DOMAIN composition = {} THEN Num(2260000)
    ELSE With([total_mass_basis \in {MassBasis(composition)} |->
         IF RLe(total_mass_basis, Zero) THEN Num(2260000)
         ELSE With([total_hvap \in {
                     RSum([c \in DOMAIN composition |->
                              RMul(RDiv(RMul(composition[c], _get_mw(c)), total_mass_basis),
                                   _HVAP_TABLE(c))], DOMAIN composition)} |->
                  IF RLt(Zero, total_hvap) THEN total_hvap ELSE Num(2260000)])])

\* the renormalization is left out
_clean_composition_filter_only(comp) ==
    LET keep == {c \in DOMAIN comp : c \notin _PSEUDO /\ RLt(Zero, comp[c])}
    IN  IF keep = {} THEN comp ELSE [c \in keep |-> comp[c]]

\* lines 231-240
_clean_composition(comp) ==
    With([keep \in {{c \in DOMAIN comp : c \notin _PSEUDO /\ RLt(Zero, comp[c])}} |->
    LET cleaned == [c \in keep |-> comp[c]]
    IN
    With([total \in {CompSum(cleaned)} |->
        IF keep = {} THEN comp
        ELSE IF RLt(Zero, total) /\ total # One
             THEN [c \in keep |-> RDiv(cleaned[c], total)]
             ELSE cleaned])])

\* ------------------------------------------------------------- streams
\* a stream state, all SI: K, Pa, kg/s, J/kg, mole basis
Stream(T, P, mf, h, vf, comp) ==
    [temperature |-> T, pressure |-> P, mass_flow |-> mf, enthalpy |-> h,
     vapor_fraction |-> vf, composition |-> comp]

Pure(c) == [k \in {c} |-> One]

\* lines 129-136
_DEFAULT_FEED == Stream(Rat(29815, 100), Num(101325), One, Zero, Zero, Pure("water"))

\* --------------------------------------------------------- parameters
\* One parameter of a node: absent, a number, or a text float() rejects
Absent == [has |-> FALSE, num |-> TRUE, v |-> Zero]

Given(x) == [has |-> TRUE, num |-> TRUE, v |-> x]

Text == [has |-> TRUE, num |-> FALSE, v |-> Zero]

\* feedComposition: absent or a mapping
NoComposition == [has |-> FALSE, v |-> <<>>]

GivenComposition(comp) == [has |-> TRUE, v |-> comp]

\* the parameters of a node: the numeric ones it carries, by key, and its
\* feedComposition
NoParams == [num |-> <<>>, feedComposition |-> NoComposition]

\* params.get(key)
Param(params, key) == IF key \in DOMAIN params.num THEN params.num[key] ELSE Absent

\* params.get(key, default) followed by float()
Get(params, key, default) ==
    IF Param(params, key).has THEN Param(params, key).v ELSE default

\* float() raises on one of the keys read
Unreadable(params, keys) == \E k \in keys : Param(params, k).has /\ ~Param(params, k).num

\* ------------------------------------------------------------ variables
VARIABLES
    flowsheet_data,     \* the argument of simulate: nodes, edges, property_package
    use_dwsim,          \* DWSIMEngine.use_dwsim
    pc,                 \* position of the run
    engine_calls,       \* tiers entered so far, in order
    nodes,              \* _simulate_basic / _topological_sort: nodes (flat format)
    edges,              \* _simulate_basic / _topological_sort: edges
    property_package,   \* _simulate_basic: property_package
    node_ids,           \* _topological_sort: node_ids, in its iteration order
    incoming,           \* _topological_sort: incoming
    outgoing,           \* _topological_sort: outgoing
    queue,              \* _topological_sort: queue
    result,             \* _topological_sort: result (sorted_ids after the return)
    cycle_ids,          \* _topological_sort: cycle_ids
    idx,                \* _simulate_basic: position of the for loop in sorted_ids
    port_conditions,    \* _simulate_basic: (node_id, port_id) -> stored outlet
    equipment_results,  \* _simulate_basic: node_id -> result entry
    inlets_of,          \* _simulate_basic: the inlets each processed node computed from
    logs,               \* _simulate_basic: logs
    has_errors,         \* _simulate_basic: has_errors
    ret,                \* what simulate returned (or that it raised)
    thermo,             \* what the thermo library answers to the flash calls of the run
    route               \* run_simulation: request body, stored flowsheet, response

vars == <<flowsheet_data, use_dwsim, pc, engine_calls, nodes, edges,
          property_package, node_ids, incoming, outgoing, queue, result,
          cycle_ids, idx, port_conditions, equipment_results, inlets_of,
          logs, has_errors, ret, thermo, route>>

\* what the steps of the engine leave alone: the argument of simulate, the
\* capability flag, and the state of the unit-level and route-level studies
inputVars == <<flowsheet_data, use_dwsim, thermo, route>>
frameVars == <<nodes, edges, property_package>>
sortVars == <<node_ids, incoming, outgoing, queue, result, cycle_ids>>
loopVars == <<idx, port_conditions, equipment_results, inlets_of, logs, has_errors>>

\* lines 49-54 and 66-70: which of the two libraries could be imported
Capabilities(t, c) == [available |-> t, coolprop |-> c]

\* neither library is installed
NoThermo == Capabilities(FALSE, FALSE)

NoRoute == [step |-> ""]

\* ------------------------------------------------------ graph of a run
\* A flat node: {id, type, name, parameters}.  has_id is FALSE when the "id"
\* key is absent; parameters is abstracted to whether the unit-operation
\* model can read them ("ok") or raises while converting them ("bad").
FlatNode(id, type, params) ==
    [has_id |-> TRUE, id |-> id, type |-> type, parameters |-> params]

\* An edge: {source, target, sourceHandle, targetHandle}.  mapping is FALSE
\* for a list element that is not a dict.
Edge(s, t, sh, th) ==
    [mapping |-> TRUE, source |-> s, target |-> t,
     sourceHandle |-> sh, targetHandle |-> th]

\* an edge that carries no sourceHandle key
EdgeWithoutSourceHandle(s, t, th) ==
    [mapping |-> TRUE, source |-> s, target |-> t, targetHandle |-> th]

\* edge.get(key, default)
EdgeGet(e, key, default) == IF key \in DOMAIN e THEN e[key] ELSE default

\* line 710: the source port of an edge in the adjacency
AdjacencyHandle(e) == EdgeGet(e, "sourceHandle", "")

\* line 1835: the source port of an edge in the stream results
ReportedHandle(e) == EdgeGet(e, "sourceHandle", "out-1")

NodeIdSet(ns) == {ns[k].id : k \in DOMAIN ns}

\* ------------------------------------------------------ topological sort
\* lines 504-511: the adjacency sets, restricted to edges inside the node set
Incoming(ids, es) ==
    [n \in ids |-> {es[k].source : k \in {j \in DOMAIN es :
                        es[j].target = n /\ es[j].source \in ids}}]

Outgoing(ids, es) ==
    [n \in ids |-> {es[k].target : k \in {j \in DOMAIN es :
                        es[j].source = n /\ es[j].target \in ids}}]

\* the queue starts with every node, whatever its incoming set
InitialQueueAll(order, inc) == order

\* the test of line 514 inverted
InitialQueueInverted(order, inc) == SelectSeq(order, LAMBDA n : inc[n] # {})

\* line 514: the zero-incoming nodes, in the iteration order of node_ids
InitialQueue(order, inc) == SelectSeq(order, LAMBDA n : inc[n] = {})

\* line 520: incoming after the relaxation of nid
Relaxed(nid, inc, out) ==
    [t \in DOMAIN inc |-> IF t \in out[nid] THEN inc[t] \ {nid} ELSE inc[t]]

\* every target is enqueued, whatever is left of its incoming set
FreedAll(nid, rinc, out) == out[nid]

\* lines 519-522: the targets of nid whose incoming set the relaxation emptied
Freed(nid, rinc, out) == {t \in out[nid] : rinc[t] = {}}

\* the nodes never dequeued are forgotten
RemainingDropped(order, res) == <<>>

\* every node is appended again, dequeued or not
RemainingAll(order, res) == order

\* lines 525-529: the nodes never dequeued, in the iteration order of node_ids
Remaining(order, res) == SelectSeq(order, LAMBDA n : n \notin Range(res))

\* lines 504-515
SortInit ==
    /\ pc = "sort"
    /\ \E order \in Perms(NodeIdSet(nodes)) :
          /\ node_ids' = order
          /\ incoming' = Incoming(Range(order), edges)
          /\ outgoing' = Outgoing(Range(order), edges)
          /\ queue' = InitialQueue(order, Incoming(Range(order), edges))
    /\ result' = <<>>
    /\ cycle_ids' = <<>>
    /\ pc' = "kahn"
    /\ UNCHANGED <<inputVars, frameVars, loopVars, engine_calls, ret>>

\* lines 516-522: one iteration of the while loop
KahnStep ==
    /\ pc = "kahn"
    /\ queue # <<>>
    /\ LET nid == Head(queue) IN
          /\ result' = Append(result, nid)
          /\ incoming' = Relaxed(nid, incoming, outgoing)
          /\ \E appended \in Perms(Freed(nid, Relaxed(nid, incoming, outgoing), outgoing)) :
                queue' = Tail(queue) \o appended
    /\ UNCHANGED <<inputVars, frameVars, loopVars, engine_calls, ret,
                   node_ids, outgoing, cycle_ids, pc>>

\* lines 524-530: the loop is over; append what is left and return
SortReturn ==
    /\ pc = "kahn"
    /\ queue = <<>>
    /\ cycle_ids' = Remaining(node_ids, result)
    /\ result' = result \o Remaining(node_ids, result)
    /\ node_ids' = <<>>
    /\ incoming' = <<>>
    /\ outgoing' = <<>>
    /\ pc' = "sorted"
    /\ UNCHANGED <<inputVars, frameVars, loopVars, engine_calls, ret, queue>>

\* ------------------------------------------- the sort on its own inputs
\* every node list over a subset of NodeIds and every edge list of at most
\* MaxEdges edges whose endpoints are node ids or the id of no node
SortNodeLists ==
    {[k \in 1..Cardinality(S) |->
        FlatNode((CHOOSE p \in Perms(S) : \A a, b \in 1..Cardinality(S) :
                     a < b => p[a] < p[b])[k], "Heater", "ok")] :
        S \in SUBSET NodeIds}

SortEdgeSets == {E \in SUBSET (NodeIds \X NodeIds) : Cardinality(E) <= MaxEdges}

PairsToEdges(E) ==
    LET p == CHOOSE q \in Perms(E) : TRUE
    IN  [k \in 1..Cardinality(E) |-> Edge(p[k][1], p[k][2], "out-1", "in-1")]

InitSort ==
    /\ pc = "sort"
    /\ nodes \in SortNodeLists
    /\ edges \in {PairsToEdges(E) : E \in SortEdgeSets}
    /\ property_package = "PengRobinson"
    /\ flowsheet_data = [nodes |-> <<>>, edges |-> <<>>, property_package |-> "PengRobinson"]
    /\ use_dwsim = FALSE
    /\ engine_calls = <<>>
    /\ node_ids = <<>> /\ incoming = <<>> /\ outgoing = <<>>
    /\ queue = <<>> /\ result = <<>> /\ cycle_ids = <<>>
    /\ idx = 0
    /\ port_conditions = <<>>
    /\ equipment_results = <<>>
    /\ inlets_of = <<>>
    /\ logs = <<>>
    /\ has_errors = FALSE
    /\ ret = [status |-> "none"]
    /\ thermo = NoThermo
    /\ route = NoRoute

NextSort == SortInit \/ KahnStep \/ SortReturn

SpecSort == InitSort /\ [][NextSort]_vars

\* ------------------------------------------------------------- simulate
\* A node as the caller sends it.  enc is "nested" for the React Flow format
\* {id, type: "equipment", data: {equipmentType, parameters}}, "flat" for
\* {id, type, parameters}, and "baddata" for a node whose data is not a
\* mapping.  type is the equipmentType of a nested node ("" when it has
\* none) and the type of a flat one.
RawNode(enc, has_id, id, type, params) ==
    [enc |-> enc, has_id |-> has_id, id |-> id, type |-> type, parameters |-> params]

\* lines 306-319: one node of _normalize_nodes
NormalizeNode(n) ==
    IF n.enc = "nested" /\ n.type # ""
    THEN [has_id |-> TRUE, id |-> IF n.has_id THEN n.id ELSE EmptyId,
          type |-> n.type, parameters |-> n.parameters]
    ELSE [has_id |-> n.has_id, id |-> n.id,
          type |-> IF n.enc = "nested" THEN "equipment" ELSE n.type,
          parameters |-> n.parameters]

\* line 308: data.get on something that is not a mapping raises
NormalizeRaises(ns) == \E k \in DOMAIN ns : ns[k].enc = "baddata"

\* lines 304-320
_normalize_nodes(ns) == [k \in DOMAIN ns |-> NormalizeNode(ns[k])]

NoneRet == [status |-> "none"]

ErrorRet(msg) == [status |-> "error", error |-> msg]

\* lines 654-669: an entry for every node of a known type
DwsimEquipmentResults ==
    LET known == {k \in DOMAIN nodes : nodes[k].type \in EQUIPMENT_TYPE_MAP}
    IN  [nid \in {nodes[k].id : k \in known} |->
            [equipment_type |->
                nodes[CHOOSE k \in known :
                        /\ nodes[k].id = nid
                        /\ \A j \in known : nodes[j].id = nid => j <= k].type]]

\* line 677
DwsimLogs == <<[kind |-> "DWSIM_COMPLETED", node |-> EmptyId]>>

\* lines 671-678
DwsimRet ==
    [status |-> "success", engine |-> "dwsim",
     stream_results |-> <<>>,
     equipment_results |-> DwsimEquipmentResults,
     convergence_info |-> [iterations |-> 1, converged |-> TRUE],
     logs |-> DwsimLogs]

\* lines 324-338, up to the call of the first tier
Simulate ==
    /\ pc = "start"
    /\ IF NormalizeRaises(flowsheet_data.nodes)
       THEN /\ pc' = "raised"
            /\ UNCHANGED <<frameVars, engine_calls, ret>>
       ELSE /\ nodes' = _normalize_nodes(flowsheet_data.nodes)
            /\ edges' = flowsheet_data.edges
            /\ property_package' = flowsheet_data.property_package
            /\ IF flowsheet_data.nodes = <<>>
               THEN /\ ret' = ErrorRet("No equipment nodes in flowsheet")
                    /\ pc' = "done"
                    /\ UNCHANGED engine_calls
               ELSE /\ pc' = IF use_dwsim THEN "dwsim_build" ELSE "basic"
                    /\ engine_calls' = <<IF use_dwsim THEN "dwsim" ELSE "basic">>
                    /\ UNCHANGED ret
    /\ UNCHANGED <<inputVars, sortVars, loopVars>>

\* ---------------------------------------------------------- full engine
\* _simulate_dwsim drives an external solver: build the unit operations
\* (594-638), connect them (641-647), solve (649), extract (652-669).
DwsimNextStep(step) ==
    CASE step = "dwsim_build" -> "dwsim_connect"
      [] step = "dwsim_connect" -> "dwsim_solve"
      [] step = "dwsim_solve" -> "dwsim_extract"
      [] step = "dwsim_extract" -> "done"

DwsimSteps == {"dwsim_build", "dwsim_connect", "dwsim_solve", "dwsim_extract"}

\* line 642: edge.get on an edge that is not a mapping raises
ConnectRaises == \E k \in DOMAIN edges : ~edges[k].mapping

\* one step of _simulate_dwsim went through; the last one returns (671-678)
DwsimStep ==
    /\ pc \in DwsimSteps
    /\ ~(pc = "dwsim_connect" /\ ConnectRaises)
    /\ pc' = DwsimNextStep(pc)
    /\ ret' = IF pc = "dwsim_extract" THEN DwsimRet ELSE ret
    /\ UNCHANGED <<inputVars, frameVars, sortVars, loopVars, engine_calls>>

\* the exception of _simulate_dwsim is not caught
AfterDwsimRaiseUncaught == "raised"

\* where simulate goes when _simulate_dwsim raised: lines 334-338
AfterDwsimRaise == "basic"

\* the external solver (or the glue around it) raised at this step
DwsimRaise ==
    /\ pc \in DwsimSteps
    /\ pc' = AfterDwsimRaise
    /\ engine_calls' = IF AfterDwsimRaise = "basic"
                       THEN Append(engine_calls, "basic") ELSE engine_calls
    /\ UNCHANGED <<inputVars, frameVars, sortVars, loopVars, ret>>

\* ------------------------------------------------------ _simulate_basic
Log(kind, nid) == [kind |-> kind, node |-> nid]

\* ------------------------------------------------------- flash engine
\* The thermo library is not part of the program: what it answers is an
\* input of a run.  An answer to one (T, P) flash: ok is FALSE when the
\* library does not know a compound or does not converge; H (J/mol), S
\* (J/(mol K)), VF are the state's enthalpy, entropy and vapor fraction; Cp,
\* rho_liquid and rho_gas are present or None; gas and liq name the compound
\* a phase consists of, or "feed" for a phase of the feed's composition.
NoAnswer ==
    [ok |-> FALSE, H |-> Zero, S |-> Zero, VF |-> Zero, Cp |-> Absent,
     rho_liquid |-> Absent, rho_gas |-> Absent, gas |-> "feed", liq |-> "feed"]

Answer(H, S, VF, Cp, rho_liquid, rho_gas, gas, liq) ==
    [ok |-> TRUE, H |-> H, S |-> S, VF |-> VF, Cp |-> Cp,
     rho_liquid |-> rho_liquid, rho_gas |-> rho_gas, gas |-> gas, liq |-> liq]

\* A secondary flash on the flasher handle ((H,P), (S,P), bubble point),
\* which raises when ok is FALSE
SecondaryRaises == [ok |-> FALSE, T |-> Zero, H |-> Zero, VF |-> Zero]

Secondary(T, H, VF) == [ok |-> TRUE, T |-> T, H |-> H, VF |-> VF]

\* What the library does for one equation of state: its answers to the
\* flashes at inlet and at outlet conditions and to the secondary flash
Behaviour(at_in, at_out, sec) == [at_in |-> at_in, at_out |-> at_out, sec |-> sec]

NoFlash == [ok |-> FALSE]

\* lines 423-426: the mole fractions of a phase the library reports
PhaseZs(zs, key) ==
    IF key \in DOMAIN zs THEN [c \in DOMAIN zs |-> IF c = key THEN One ELSE Zero] ELSE zs

\* the equation of state is Peng-Robinson for every package
\* lines 372, 386-388: the equation of state a package selects
Eos(pp) == IF pp = "SRK" THEN "SRK" ELSE "PR"

\* lines 343-456; it returns None (NoFlash) and never raises
_flash_tp(comp, T, P, answer) ==
    IF ~answer.ok \/ DOMAIN comp = {} THEN NoFlash
    ELSE IF RLe(CompSum(comp), Zero) THEN NoFlash
    ELSE With([zs_norm \in {Normalized(comp)} |->
         [ok |-> TRUE, T |-> T, P |-> P, H |-> answer.H, S |-> answer.S,
          VF |-> answer.VF, Cp |-> answer.Cp, rho_liquid |-> answer.rho_liquid,
          rho_gas |-> answer.rho_gas,
          MW_mix |-> MassBasis(zs_norm), zs |-> zs_norm,
          gas_zs |-> IF RLt(Zero, answer.VF) THEN PhaseZs(zs_norm, answer.gas) ELSE zs_norm,
          liquid_zs |-> IF RLt(answer.VF, One) THEN PhaseZs(zs_norm, answer.liq) ELSE zs_norm]])

\* flash and flash.get("MW_mix", 0) > 0
Usable(flash) == flash.ok /\ RLt(Zero, flash.MW_mix)

\* the library is a function of its arguments: a flash of the inlet's
\* compounds at the inlet's temperature and pressure answers as the inlet
\* flash did, any other flash as the library does at the outlet conditions
AnswerAt(o, T, P, inlet) ==
    IF T = inlet.temperature /\ P = inlet.pressure THEN o.at_in ELSE o.at_out

\* J/mol -> J/kg with the mixture molecular weight in g/mol
MolarToMass(H, MW_mix) == RDiv(H, RDiv(MW_mix, Num(1000)))

\* line 487: the universal gas constant 8.314
R_GAS == Rat(4157, 500)

\* lines 461-494
_get_density(comp, T, P, answer) ==
    With([flash \in {_flash_tp(comp, T, P, answer)} |->
    IF ~flash.ok THEN Num(1000)
    ELSE IF RLt(Rat(1, 2), flash.VF)
         THEN IF flash.rho_gas.has THEN flash.rho_gas.v
              ELSE IF RLt(Zero, T)
                   THEN RMax(RDiv(RMul(P, RDiv(flash.MW_mix, Num(1000))), RMul(R_GAS, T)),
                             Rat(1, 100))
                   ELSE Num(1000)
         ELSE IF flash.rho_liquid.has /\ RLt(Zero, flash.rho_liquid.v)
              THEN flash.rho_liquid.v
              ELSE Num(1000)])

\* ------------------------------------------------------------- feed
FeedKeys == {"feedTemperature", "feedPressure", "feedFlowRate"}

\* lines 558-573: the composition of the feed
FeedComposition(params) ==
    LET fc == params.feedComposition IN
    IF fc.has /\ DOMAIN fc.v # {}
    THEN IF RLt(Zero, CompSum(fc.v)) THEN Normalized(fc.v) ELSE fc.v
    ELSE _DEFAULT_FEED.composition

\* lines 536-586; the flash of line 579 names no package
_build_feed_from_params(params, fl) ==
    With([T \in {IF Param(params, "feedTemperature").has
                 THEN _c_to_k(Param(params, "feedTemperature").v) ELSE _DEFAULT_FEED.temperature} |->
    With([P \in {IF Param(params, "feedPressure").has
                 THEN _kpa_to_pa(Param(params, "feedPressure").v) ELSE _DEFAULT_FEED.pressure} |->
    LET mf == Get(params, "feedFlowRate", _DEFAULT_FEED.mass_flow)
    IN
    With([comp \in {FeedComposition(params)} |->
    With([flash \in {_flash_tp(comp, T, P, fl[Eos("PengRobinson")].at_in)} |->
    With([h \in {IF Usable(flash)
                 THEN MolarToMass(flash.H, flash.MW_mix)
                 ELSE RMul(_estimate_cp(comp), RSub(T, _T_REF))} |->
        Stream(T, P, mf, h, _DEFAULT_FEED.vapor_fraction, comp)])])])])])

\* ------------------------------------------------ unit-operation models
\* What the branch of a type makes of its inlets: it raised, or it wrote
\* the outlets (port -> stream), the result entry and its log lines.
RaisedAfter(lines) == [raised |-> TRUE, lines |-> lines]

Raised == RaisedAfter(<<>>)

Computed(outlets, eq_res, lines) ==
    [raised |-> FALSE, outlets |-> outlets, eq_res |-> eq_res, lines |-> lines]

\* line 762
EqRes(ntype) == [equipment_type |-> ntype]

\* the exception of a secondary flash leaves the try block
CaughtNot(ok) == ok

\* lines 816, 973, 1054, 1151, 1370, 1454, 1535, 1547: the except clause
\* around a secondary flash; TRUE when the branch goes on after the flash
Caught(ok) == TRUE

\* lines 765-848
HeaterCooler(nid, ntype, inlets, params, pp, fl) ==
    LET inlet == inlets[1]
        T_in == inlet.temperature
        P_in == inlet.pressure
        mf == inlet.mass_flow
        comp == inlet.composition
    IN
    With([dp \in {_kpa_to_pa(Get(params, "pressureDrop", Zero))} |->
    With([P_out \in {RSub(P_in, dp)} |->
    LET T_out_c == Param(params, "outletTemperature")
        duty_kw == Param(params, "duty")
    IN
    With([cp \in {_estimate_cp(comp)} |->
    LET o == fl[Eos(pp)]
    IN
    With([flash_in \in {_flash_tp(comp, T_in, P_in, o.at_in)} |->
    With([mode \in {IF T_out_c.has THEN "temperature"
                    ELSE IF duty_kw.has /\ duty_kw.v # Zero THEN "duty" ELSE "default"} |->
    With([hp \in {mode = "duty" /\ Usable(flash_in)} |->
    With([duty_given \in {LET d == _kw_to_w(duty_kw.v)
                          IN  IF ntype = "Cooler" THEN <<-Abs(d[1]), d[2]>> ELSE d} |->
    With([T_out \in {CASE mode = "temperature" -> _c_to_k(T_out_c.v)
                       [] mode = "duty" ->
                            IF hp /\ o.sec.ok THEN o.sec.T
                            ELSE IF RLt(Zero, mf)
                                 THEN RAdd(T_in, RDiv(duty_given, RMul(mf, cp)))
                                 ELSE T_in
                       [] OTHER -> RAdd(T_in, IF ntype = "Heater" THEN Num(50) ELSE Num(-50))} |->
    With([flash_out \in {_flash_tp(comp, T_out, P_out, AnswerAt(o, T_out, P_out, inlet))} |->
    With([duty_w \in {CASE mode = "temperature" ->
                             IF flash_in.ok /\ flash_out.ok /\ RLt(Zero, flash_in.MW_mix)
                             THEN RMul(mf, RSub(MolarToMass(flash_out.H, flash_in.MW_mix),
                                                MolarToMass(flash_in.H, flash_in.MW_mix)))
                             ELSE RMul(mf, RMul(cp, RSub(T_out, T_in)))
                        [] mode = "duty" -> duty_given
                        [] OTHER -> RMul(mf, RMul(cp, RSub(T_out, T_in)))} |->
    With([eq_res \in {EqRes(ntype) @@
                      [duty |-> Round(_w_to_kw(duty_w), 1000),
                       outletTemperature |-> Round(_k_to_c(T_out), 100),
                       pressureDrop |-> Round(_pa_to_kpa(dp), 1000)]} |->
    With([outlet \in {[inlet EXCEPT
                         !.temperature = T_out,
                         !.pressure = P_out,
                         !.enthalpy = IF Usable(flash_out)
                                      THEN MolarToMass(flash_out.H, flash_out.MW_mix)
                                      ELSE RMul(cp, RSub(T_out, _T_REF)),
                         !.vapor_fraction = IF flash_out.ok THEN flash_out.VF ELSE Zero]} |->
        IF \/ Unreadable(params, {"pressureDrop", "outletTemperature"})
           \/ ~T_out_c.has /\ Unreadable(params, {"duty"})
           \/ hp /\ ~o.sec.ok /\ ~Caught(o.sec.ok)
        THEN Raised
        ELSE Computed([p \in {"out-1"} |-> outlet], eq_res, <<Log("INFO", nid)>>)])])])])])])])])])])])])

\* lines 1028-1080
Valve(nid, inlets, params, pp, fl) ==
    LET inlet == inlets[1]
        T_in == inlet.temperature
        P_in == inlet.pressure
        comp == inlet.composition
    IN
    With([P_out \in {_kpa_to_pa(Get(params, "outletPressure", _pa_to_kpa(RDiv(P_in, Num(2)))))} |->
    LET o == fl[Eos(pp)]
    IN
    With([flash_in \in {_flash_tp(comp, T_in, P_in, o.at_in)} |->
    LET hp == DOMAIN comp # {} /\ flash_in.ok
        T_out == IF hp /\ o.sec.ok THEN o.sec.T ELSE T_in
        vf_out == IF hp /\ o.sec.ok THEN o.sec.VF ELSE inlet.vapor_fraction
    IN
    With([flash_valve_out \in {_flash_tp(comp, T_out, P_out, AnswerAt(o, T_out, P_out, inlet))} |->
    With([eq_res \in {EqRes("Valve") @@
                      [pressureDrop |-> Round(_pa_to_kpa(RSub(P_in, P_out)), 1000),
                       outletTemperature |-> Round(_k_to_c(T_out), 100)]} |->
    With([outlet \in {[inlet EXCEPT
                         !.temperature = T_out,
                         !.pressure = P_out,
                         !.enthalpy = IF Usable(flash_valve_out)
                                      THEN MolarToMass(flash_valve_out.H, flash_valve_out.MW_mix)
                                      ELSE inlet.enthalpy,
                         !.vapor_fraction = vf_out]} |->
        IF \/ Unreadable(params, {"outletPressure"})
           \/ hp /\ ~o.sec.ok /\ ~Caught(o.sec.ok)
        THEN Raised
        ELSE Computed([p \in {"out-1"} |-> outlet], eq_res, <<Log("INFO", nid)>>)])])])])])

\* the ratio is used as given
ClampNot(ratio) == ratio

\* lines 1174, 1765: max(0.0, min(1.0, ratio))
Clamp(ratio) == RMax(Zero, RMin(One, ratio))

\* lines 1170-1187
Splitter(nid, inlets, params) ==
    LET inlet == inlets[1]
        mf == inlet.mass_flow
    IN
    With([ratio \in {Clamp(Get(params, "splitRatio", Rat(1, 2)))} |->
    With([out1 \in {[inlet EXCEPT !.mass_flow = RMul(mf, ratio)]} |->
    With([out2 \in {[inlet EXCEPT !.mass_flow = RMul(mf, RSub(One, ratio))]} |->
        IF Unreadable(params, {"splitRatio"})
        THEN Raised
        ELSE Computed([p \in {"out-1", "out-2"} |-> IF p = "out-1" THEN out1 ELSE out2],
                      EqRes("Splitter") @@ [splitRatio |-> ratio],
                      <<Log("INFO", nid)>>)])])])

\* lines 1099-1103: the molar flow of one inlet, mol/s
MolarFlow(s) ==
    With([MW_mix_s \in {MassBasis(s.composition)} |->
    IF RLt(Zero, MW_mix_s)
    THEN RDiv(s.mass_flow, RDiv(MW_mix_s, Num(1000)))
    ELSE RDiv(s.mass_flow, Rat(18, 1000))])

\* lines 1085-1114: the mole fractions of the mixture
MixedComposition(inlets) ==
    LET with == {k \in DOMAIN inlets : DOMAIN inlets[k].composition # {}}
        names == UNION {DOMAIN inlets[k].composition : k \in with}
    IN
    With([total_molar \in {RSum([k \in with |-> MolarFlow(inlets[k])], with)} |->
    With([mixed_comp_molar \in {
                [c \in names |->
                    RSum([k \in with |->
                            IF c \in DOMAIN inlets[k].composition
                            THEN RMul(inlets[k].composition[c], MolarFlow(inlets[k]))
                            ELSE Zero], with)]} |->
        IF RLt(Zero, total_molar)
        THEN [c \in names |-> RDiv(mixed_comp_molar[c], total_molar)]
        ELSE <<>>])])

\* the largest inlet pressure
MaxPressure(inlets) ==
    LET P == {inlets[k].pressure : k \in DOMAIN inlets}
    IN  CHOOSE p \in P : \A q \in P : RLe(q, p)

\* lines 1087, 1094: the smallest inlet pressure
MinPressure(inlets) ==
    LET P == {inlets[k].pressure : k \in DOMAIN inlets}
    IN  CHOOSE p \in P : \A q \in P : RLe(p, q)

\* lines 1082-1168
Mixer(nid, inlets, params, pp, fl) ==
    With([total_mass \in {RSum([k \in DOMAIN inlets |-> inlets[k].mass_flow], DOMAIN inlets)} |->
    With([total_enthalpy_rate \in {
                RSum([k \in DOMAIN inlets |-> RMul(inlets[k].mass_flow, inlets[k].enthalpy)],
                     DOMAIN inlets)} |->
    With([mixed_comp \in {MixedComposition(inlets)} |->
    With([h_mix \in {IF RLt(Zero, total_mass) THEN RDiv(total_enthalpy_rate, total_mass) ELSE Zero} |->
    With([dp \in {_kpa_to_pa(Get(params, "pressureDrop", Zero))} |->
    With([P_out \in {RSub(MinPressure(inlets), dp)} |->
    With([cp_est \in {_estimate_cp(mixed_comp)} |->
    With([T_est \in {RAdd(_T_REF, RDiv(h_mix, cp_est))} |->
    LET o == fl[Eos(pp)]
    IN
    With([test_flash \in {_flash_tp(mixed_comp, RMax(T_est, Num(200)), P_out, o.at_out)} |->
    LET hp == DOMAIN mixed_comp # {} /\ test_flash.ok
    IN
    With([outlet \in {Stream(IF hp /\ o.sec.ok THEN o.sec.T ELSE T_est,
                             P_out, total_mass, h_mix,
                             IF hp /\ o.sec.ok THEN o.sec.VF ELSE Zero,
                             mixed_comp)} |->
    With([eq_res \in {EqRes("Mixer") @@
                      [outletPressure |-> Round(_pa_to_kpa(P_out), 1000),
                       totalMassFlow |-> Round(total_mass, 10000)]} |->
        IF \/ Unreadable(params, {"pressureDrop"})
           \/ hp /\ ~o.sec.ok /\ ~Caught(o.sec.ok)
        THEN Raised
        ELSE Computed([p \in {"out-1"} |-> outlet], eq_res, <<Log("INFO", nid)>>)])])])])])])])])])])])

\* lines 1324-1416
Separator(nid, inlets, params, pp, fl) ==
    LET inlet == inlets[1]
        mf == inlet.mass_flow
        comp == inlet.composition
    IN
    With([T_op \in {IF Param(params, "temperature").has
                    THEN _c_to_k(Param(params, "temperature").v) ELSE inlet.temperature} |->
    With([P_op \in {IF Param(params, "pressure").has
                    THEN _kpa_to_pa(Param(params, "pressure").v) ELSE inlet.pressure} |->
    LET o == fl[Eos(pp)]
    IN
    With([flash_result \in {_flash_tp(comp, T_op, P_op, o.at_in)} |->
    LET vf == flash_result.VF
        MW_vap == MassBasis(flash_result.gas_zs)
        MW_liq == MassBasis(flash_result.liquid_zs)
        denom == RAdd(RMul(vf, MW_vap), RMul(RSub(One, vf), MW_liq))
        mass_vap_frac == IF RLt(Zero, denom) THEN RDiv(RMul(vf, MW_vap), denom) ELSE vf
        h_vap == IF o.sec.ok /\ RLt(Zero, vf) /\ RLt(Zero, MW_vap)
                 THEN MolarToMass(o.sec.H, MW_vap) ELSE Zero
        h_liq == IF o.sec.ok /\ RLt(vf, One) /\ RLt(Zero, MW_liq)
                 THEN MolarToMass(o.sec.H, MW_liq) ELSE Zero
    IN
    With([vf_est \in {Rat(1, 10)} |->
    With([h_liq_est \in {RMul(_estimate_cp(comp), RSub(T_op, _T_REF))} |->
    With([h_vap_est \in {RAdd(h_liq_est, _estimate_hvap(comp))} |->
        IF \/ Unreadable(params, {"temperature", "pressure"})
           \/ flash_result.ok /\ ~o.sec.ok /\ ~Caught(o.sec.ok)
        THEN Raised
        ELSE IF flash_result.ok
        THEN Computed(
               [p \in {"out-1", "out-2"} |->
                  IF p = "out-1"
                  THEN Stream(T_op, P_op, RMul(mf, mass_vap_frac), h_vap, One,
                              flash_result.gas_zs)
                  ELSE Stream(T_op, P_op, RMul(mf, RSub(One, mass_vap_frac)), h_liq, Zero,
                              flash_result.liquid_zs)],
               EqRes("Separator") @@
                  [vaporFraction |-> Round(vf, 10000),
                   massVaporFraction |-> Round(mass_vap_frac, 10000)],
               <<Log("INFO", nid)>>)
        ELSE Computed(
               [p \in {"out-1", "out-2"} |->
                  IF p = "out-1"
                  THEN Stream(T_op, P_op, RMul(mf, vf_est), h_vap_est, One, comp)
                  ELSE Stream(T_op, P_op, RMul(mf, RSub(One, vf_est)), h_liq_est, Zero, comp)],
               EqRes("Separator") @@ [vaporFraction |-> vf_est],
               <<Log("WARNING", nid)>>)])])])])])])

RAbs(a) == <<Abs(a[1]), a[2]>>

\* flash.get("Cp") is neither None nor zero
CpTruthy(flash) == flash.ok /\ flash.Cp.has /\ flash.Cp.v # Zero

\* lines 878-880, 931-933: the efficiency as a fraction
Efficiency(params) ==
    With([eff \in {RDiv(Get(params, "efficiency", Num(75)), Num(100))} |->
        IF RLe(eff, Zero) THEN Rat(3, 4) ELSE eff])

\* lines 854-856, 917-919: a mass flow <= 0 is replaced by 1e-10 kg/s, with
\* which every reported power is below the reporting precision
ClampedFlow(mf) == RLe(mf, Zero)

ReportedPower(mf, w_per_kg) ==
    IF ClampedFlow(mf) THEN Zero ELSE Round(_w_to_kw(RMul(mf, w_per_kg)), 1000)

\* lines 858-910: the pump once the density and the inlet flash are known
PumpFrom(nid, inlet, params, o, rho_flash, flash_in) ==
    LET P_in == inlet.pressure
        T_in == inlet.temperature
        comp == inlet.composition
    IN
    With([rho \in {IF RLe(rho_flash, Zero) THEN Num(1000) ELSE rho_flash} |->
    With([P_out \in {_kpa_to_pa(Get(params, "outletPressure", _pa_to_kpa(RMul(P_in, Num(2)))))} |->
    With([eff \in {Efficiency(params)} |->
    With([w_ideal \in {RDiv(RSub(P_out, P_in), rho)} |->
    With([w_actual \in {RDiv(w_ideal, eff)} |->
    With([cp \in {IF CpTruthy(flash_in) /\ RLt(Zero, flash_in.MW_mix)
                  THEN MolarToMass(flash_in.Cp.v, flash_in.MW_mix)
                  ELSE _estimate_cp(comp)} |->
    With([dT_friction \in {RDiv(RSub(w_actual, w_ideal), cp)} |->
    With([T_out \in {RAdd(T_in, dT_friction)} |->
    With([flash_pump_out \in {_flash_tp(comp, T_out, P_out, AnswerAt(o, T_out, P_out, inlet))} |->
    With([eq_res \in {EqRes("Pump") @@
                      [work |-> ReportedPower(inlet.mass_flow, w_actual),
                       efficiency |-> Round(RMul(eff, Num(100)), 10),
                       outletPressure |-> Round(_pa_to_kpa(P_out), 1000),
                       temperatureRise |-> Round(dT_friction, 1000)]} |->
    With([outlet \in {[inlet EXCEPT
                         !.temperature = T_out,
                         !.pressure = P_out,
                         !.enthalpy = IF Usable(flash_pump_out)
                                      THEN MolarToMass(flash_pump_out.H, flash_pump_out.MW_mix)
                                      ELSE RAdd(inlet.enthalpy, w_actual)]} |->
    With([warnings \in {(IF ClampedFlow(inlet.mass_flow) THEN <<Log("WARNING", nid)>> ELSE <<>>)
                        \o (IF flash_in.ok /\ RLt(Rat(1, 100), flash_in.VF)
                            THEN <<Log("WARNING", nid)>> ELSE <<>>)
                        \o (IF RLe(rho_flash, Zero) THEN <<Log("WARNING", nid)>> ELSE <<>>)} |->
        IF Unreadable(params, {"outletPressure", "efficiency"})
        THEN RaisedAfter(warnings)
        ELSE Computed([p \in {"out-1"} |-> outlet], eq_res,
                      warnings \o <<Log("INFO", nid)>>)])])])])])])])])])])])])

\* lines 850-910
Pump(nid, inlets, params, pp, fl) ==
    LET inlet == inlets[1]
        o == fl[Eos(pp)]
    IN  PumpFrom(nid, inlet, params, o,
                 _get_density(inlet.composition, inlet.temperature, inlet.pressure, o.at_in),
                 _flash_tp(inlet.composition, inlet.temperature, inlet.pressure, o.at_in))

\* lines 912-1026.  The value of ratio ** ((gamma - 1) / gamma) in line 1005
\* is irrational in general: it is the input fl.pow of the run.
Compressor(nid, inlets, params, pp, fl) ==
    LET inlet == inlets[1]
        T_in == inlet.temperature
        comp == inlet.composition
    IN
    With([P_in \in {IF RLe(inlet.pressure, Zero) THEN Num(101325) ELSE inlet.pressure} |->
    With([P_out \in {_kpa_to_pa(Get(params, "outletPressure", _pa_to_kpa(RMul(P_in, Num(3)))))} |->
    With([eff \in {Efficiency(params)} |->
    LET o == fl[Eos(pp)]
    IN
    With([flash_in \in {_flash_tp(comp, T_in, P_in, o.at_in)} |->
    LET entropy == flash_in.ok /\ flash_in.S # Zero
        used_entropy == entropy /\ o.sec.ok
        mw_kg == RDiv(flash_in.MW_mix, Num(1000))
        dH_actual == RDiv(RSub(o.sec.H, flash_in.H), eff)
    IN
    With([cp \in {IF flash_in.ok /\ flash_in.Cp.has /\ RLt(Zero, mw_kg)
                  THEN RDiv(flash_in.Cp.v, mw_kg)
                  ELSE _estimate_cp(comp)} |->
    With([T_out_isen \in {RMul(T_in, fl.pow)} |->
    With([T_out \in {IF used_entropy THEN o.sec.T
                     ELSE RAdd(T_in, RDiv(RSub(T_out_isen, T_in), eff))} |->
    With([work_per_kg \in {IF used_entropy
                           THEN IF RLt(Zero, mw_kg) THEN RDiv(dH_actual, mw_kg) ELSE Zero
                           ELSE RMul(cp, RSub(T_out, T_in))} |->
    With([flash_comp_out \in {_flash_tp(comp, T_out, P_out, AnswerAt(o, T_out, P_out, inlet))} |->
    With([eq_res \in {EqRes("Compressor") @@
                      [work |-> ReportedPower(inlet.mass_flow, work_per_kg),
                       efficiency |-> Round(RMul(eff, Num(100)), 10),
                       outletPressure |-> Round(_pa_to_kpa(P_out), 1000),
                       outletTemperature |-> Round(_k_to_c(T_out), 100)]} |->
    With([outlet \in {[inlet EXCEPT
                         !.temperature = T_out,
                         !.pressure = P_out,
                         !.enthalpy = IF Usable(flash_comp_out)
                                      THEN MolarToMass(flash_comp_out.H, flash_comp_out.MW_mix)
                                      ELSE RAdd(inlet.enthalpy, work_per_kg)]} |->
    With([guards \in {(IF ClampedFlow(inlet.mass_flow) THEN <<Log("WARNING", nid)>> ELSE <<>>)
                      \o (IF RLe(inlet.pressure, Zero) THEN <<Log("WARNING", nid)>> ELSE <<>>)} |->
    With([expansion \in {IF RLt(P_out, P_in) THEN <<Log("WARNING", nid)>> ELSE <<>>} |->
    With([wet \in {IF flash_in.ok /\ RLt(flash_in.VF, Rat(99, 100))
                   THEN <<Log("WARNING", nid)>> ELSE <<>>} |->
        IF Unreadable(params, {"outletPressure"}) THEN RaisedAfter(guards)
        ELSE IF Unreadable(params, {"efficiency"}) THEN RaisedAfter(guards \o expansion)
        ELSE IF entropy /\ ~o.sec.ok /\ ~Caught(o.sec.ok)
        THEN RaisedAfter(guards \o expansion \o wet)
        ELSE Computed([p \in {"out-1"} |-> outlet], eq_res,
                      guards \o expansion \o wet \o <<Log("INFO", nid)>>)])])])])])])])])])])])])])])

\* lines 1882-1892; the logarithmic mean itself is kept as the pair it is
\* the mean of
_calc_lmtd(T_h_in, T_h_out, T_c_in, T_c_out) ==
    LET dT1 == RSub(T_h_in, T_c_out)
        dT2 == RSub(T_h_out, T_c_in)
    IN  IF RLe(dT1, Zero) \/ RLe(dT2, Zero) THEN [mean |-> "none", of |-> <<Zero, Zero>>]
        ELSE IF dT1 = dT2 THEN [mean |-> "none", of |-> <<dT1, dT1>>]
        ELSE [mean |-> "log", of |-> <<dT1, dT2>>]

\* lines 1194-1199: the last inlet whose target handle is h, 0 if none
HandleIndex(handles, n, h) ==
    LET hit == {i \in DOMAIN handles : i <= n /\ handles[i] = h}
    IN  IF hit = {} THEN 0 ELSE CHOOSE i \in hit : \A j \in hit : j <= i

\* lines 1191-1209: the inlet of a side
SideInlet(inlets, handles, h, position) ==
    IF HandleIndex(handles, Len(inlets), h) # 0
    THEN inlets[HandleIndex(handles, Len(inlets), h)]
    ELSE IF Len(inlets) >= position THEN inlets[position] ELSE _DEFAULT_FEED

\* lines 1296-1322: the outlets, once the outlet temperatures are known
HeatExchangerOutlets(nid, swapped, hot, cold, params, o, flash_hot, cp_hot, cp_cold, T_hot_out, T_cold_out, duty_cp, imbalanced) ==
    LET T_hot_in == hot.temperature
        T_cold_in == cold.temperature
        mf_hot == hot.mass_flow
    IN
    With([dp_hot \in {_kpa_to_pa(Get(params, "pressureDropHot", Num(10)))} |->
    With([dp_cold \in {_kpa_to_pa(Get(params, "pressureDropCold", Num(10)))} |->
    With([flash_hot_out \in {_flash_tp(hot.composition, T_hot_out, RSub(hot.pressure, dp_hot),
                                       o.at_out)} |->
    With([flash_cold_out \in {_flash_tp(cold.composition, T_cold_out,
                                        RSub(cold.pressure, dp_cold), o.at_out)} |->
    With([hot_out \in {[hot EXCEPT
                          !.temperature = T_hot_out,
                          !.pressure = RSub(hot.pressure, dp_hot),
                          !.enthalpy = IF Usable(flash_hot_out)
                                       THEN MolarToMass(flash_hot_out.H, flash_hot_out.MW_mix)
                                       ELSE RMul(cp_hot, RSub(T_hot_out, _T_REF))]} |->
    With([cold_out \in {[cold EXCEPT
                           !.temperature = T_cold_out,
                           !.pressure = RSub(cold.pressure, dp_cold),
                           !.enthalpy = IF Usable(flash_cold_out)
                                        THEN MolarToMass(flash_cold_out.H, flash_cold_out.MW_mix)
                                        ELSE RMul(cp_cold, RSub(T_cold_out, _T_REF))]} |->
    With([duty \in {IF Usable(flash_hot) /\ Usable(flash_hot_out)
                    THEN RMul(mf_hot, RSub(MolarToMass(flash_hot.H, flash_hot.MW_mix),
                                           hot_out.enthalpy))
                    ELSE duty_cp} |->
    With([eq_res \in {EqRes("HeatExchanger") @@
                      [duty |-> Round(_w_to_kw(duty), 1000),
                       hotOutletTemp |-> Round(_k_to_c(T_hot_out), 100),
                       coldOutletTemp |-> Round(_k_to_c(T_cold_out), 100),
                       LMTD |-> _calc_lmtd(T_hot_in, T_hot_out, T_cold_in, T_cold_out)]} |->
    With([lines \in {(IF imbalanced THEN <<Log("WARNING", nid)>> ELSE <<>>)
                     \o (IF RLt(T_hot_out, T_cold_in) \/ RLt(T_hot_in, T_cold_out)
                         THEN <<Log("WARNING", nid)>> ELSE <<>>)
                     \o <<Log("INFO", nid)>>} |->
        IF Unreadable(params, {"pressureDropHot", "pressureDropCold",
                               "hotOutletTemp", "coldOutletTemp"})
        THEN Raised
        ELSE Computed([p \in {"out-hot", "out-cold"} |->
                         IF (p = "out-hot") = swapped THEN cold_out ELSE hot_out],
                      eq_res, lines)])])])])])])])])])

\* lines 1230-1295: the outlet temperatures, once the inlet flashes are known
HeatExchangerSides(nid, swapped, hot, cold, params, o, flash_hot, flash_cold) ==
    LET T_hot_in == hot.temperature
        T_cold_in == cold.temperature
        mf_hot == hot.mass_flow
        mf_cold == cold.mass_flow
    IN
    With([cp_hot \in {IF CpTruthy(flash_hot) /\ RLt(Zero, flash_hot.MW_mix)
                      THEN MolarToMass(flash_hot.Cp.v, flash_hot.MW_mix)
                      ELSE _estimate_cp(hot.composition)} |->
    With([cp_cold \in {IF CpTruthy(flash_cold) /\ RLt(Zero, flash_cold.MW_mix)
                       THEN MolarToMass(flash_cold.Cp.v, flash_cold.MW_mix)
                       ELSE _estimate_cp(cold.composition)} |->
    LET T_hot_out_c == Param(params, "hotOutletTemp")
        T_cold_out_c == Param(params, "coldOutletTemp")
    IN
    With([cap_hot \in {RMul(mf_hot, cp_hot)} |->
    With([cap_cold \in {RMul(mf_cold, cp_cold)} |->
    LET FromHot(duty) == IF RLt(Zero, cap_cold)
                         THEN RAdd(T_cold_in, RDiv(duty, cap_cold)) ELSE T_cold_in
        both == T_hot_out_c.has /\ T_cold_out_c.has
    IN
    With([T_hot_given \in {_c_to_k(T_hot_out_c.v)} |->
    With([T_cold_given \in {_c_to_k(T_cold_out_c.v)} |->
    With([duty_hot \in {RMul(cap_hot, RSub(T_hot_in, T_hot_given))} |->
    With([duty_cold \in {RMul(cap_cold, RSub(T_cold_given, T_cold_in))} |->
    With([largest \in {RMax(RAbs(duty_hot), RAbs(duty_cold))} |->
    With([imbalanced \in {/\ both
                          /\ RLt(Zero, largest)
                          /\ RLt(Rat(1, 20), RDiv(RAbs(RSub(duty_hot, duty_cold)), largest))} |->
    With([T_hot_out \in {IF T_hot_out_c.has THEN T_hot_given
                         ELSE IF T_cold_out_c.has
                              THEN IF RLt(Zero, cap_hot)
                                   THEN RSub(T_hot_in, RDiv(duty_cold, cap_hot)) ELSE T_hot_in
                              ELSE RAdd(T_cold_in, Num(10))} |->
    With([duty_cp \in {IF T_hot_out_c.has THEN duty_hot
                       ELSE IF T_cold_out_c.has THEN duty_cold
                       ELSE RMul(cap_hot, RSub(T_hot_in, T_hot_out))} |->
    With([T_cold_out \in {IF both THEN (IF imbalanced THEN FromHot(duty_hot) ELSE T_cold_given)
                          ELSE IF T_cold_out_c.has THEN T_cold_given
                          ELSE FromHot(duty_cp)} |->
        HeatExchangerOutlets(nid, swapped, hot, cold, params, o, flash_hot, cp_hot, cp_cold,
                             T_hot_out, T_cold_out, duty_cp, imbalanced)])])])])])])])])])])])])])

\* lines 1189-1322
HeatExchanger(nid, inlets, handles, params, pp, fl) ==
    With([hot0 \in {SideInlet(inlets, handles, "in-hot", 1)} |->
    With([cold0 \in {SideInlet(inlets, handles, "in-cold", 2)} |->
    With([swapped \in {RLt(hot0.temperature, cold0.temperature)} |->
    LET hot == IF swapped THEN cold0 ELSE hot0
        cold == IF swapped THEN hot0 ELSE cold0
        o == fl[Eos(pp)]
    IN  HeatExchangerSides(nid, swapped, hot, cold, params, o,
                           _flash_tp(hot.composition, hot.temperature, hot.pressure, o.at_in),
                           _flash_tp(cold.composition, cold.temperature, cold.pressure,
                                     o.at_in))])])])

\* The order in which a composition mapping lists its compounds (the
\* insertion order of the dict), which is also the order of their boiling
\* points
DictOrder == <<"methane", "ethane", "water", "products">>

\* list(comp.keys())
Keys(comp) == SelectSeq(DictOrder, LAMBDA c : c \in DOMAIN comp)

\* sum(values) or 1.0
NormalizedOrAsIs(comp) ==
    IF CompSum(comp) = Zero THEN comp ELSE Normalized(comp)

\* lines 1616-1671: the products of the boiling-point fallback
BoilingPointSplit(comp) ==
    LET names == Keys(comp)
        half == IF Len(names) \div 2 < 1 THEN 1 ELSE Len(names) \div 2
        light == {names[i] : i \in {j \in DOMAIN names : j <= half}}
        heavy == {names[i] : i \in {j \in DOMAIN names : j > half}}
    IN  [distillate |-> NormalizedOrAsIs([c \in light |-> comp[c]]),
         bottoms |-> NormalizedOrAsIs([c \in heavy |-> comp[c]])]

\* lines 1418-1671.  The shortcut method (1457-1503) works on logarithms and
\* powers of the K-values the library reports; what it arrives at is the
\* input fl.fug of the run: whether it raised, whether it found the keys
\* separable (alpha > 1.01), whether it adjusted the reflux ratio, the
\* number of stages N_eff and the fraction d[c] of each compound that goes
\* overhead.
DistillationColumn(nid, inlets, params, pp, fl) ==
    LET inlet == inlets[1]
        mf == inlet.mass_flow
        T_feed == inlet.temperature
        P_feed == inlet.pressure
        comp == inlet.composition
    IN
    With([n_stages \in {Get(params, "numberOfStages", Num(10))} |->
    With([reflux_ratio \in {Get(params, "refluxRatio", Rat(3, 2))} |->
    With([P_cond \in {_kpa_to_pa(Get(params, "condenserPressure", _pa_to_kpa(P_feed)))} |->
    LET o == fl[Eos(pp)]
    IN
    With([attempted \in {Cardinality(DOMAIN comp) >= 2 /\ fl.available} |->
    With([flash_feed \in {_flash_tp(comp, T_feed, P_feed, o.at_in)} |->
    LET entered == attempted /\ flash_feed.ok
        fug_raised == entered /\ fl.fug.raises
        fug_ok == entered /\ ~fl.fug.raises /\ fl.fug.separable
    IN
    With([d_fracs \in {[c \in DOMAIN comp |-> RMax(RMul(comp[c], fl.fug.d[c]), Zero)]} |->
    With([b_fracs \in {[c \in DOMAIN comp |-> RMax(RSub(comp[c], RMul(comp[c], fl.fug.d[c])), Zero)]} |->
    With([distillate_comp \in {NormalizedOrAsIs(d_fracs)} |->
    With([bottoms_comp \in {NormalizedOrAsIs(b_fracs)} |->
    With([mass_dist \in {MassBasis(d_fracs)} |->
    With([mass_bott \in {MassBasis(b_fracs)} |->
    With([mass_total \in {RAdd(mass_dist, mass_bott)} |->
    With([frac_dist \in {IF RLt(Zero, mass_total) THEN RDiv(mass_dist, mass_total) ELSE Rat(1, 2)} |->
    With([P_bott \in {RAdd(P_cond, RMul(fl.fug.N_eff, Num(1000)))} |->
    With([flash_dist \in {_flash_tp(distillate_comp, RSub(T_feed, Num(20)), P_cond, o.at_out)} |->
    With([T_dist \in {IF flash_dist.ok /\ o.sec.ok THEN o.sec.T ELSE RSub(T_feed, Num(20))} |->
    With([flash_bott \in {_flash_tp(bottoms_comp, RAdd(T_feed, Num(20)), P_bott, o.at_out)} |->
    With([T_bott \in {IF flash_bott.ok /\ o.sec.ok THEN o.sec.T ELSE RAdd(T_feed, Num(20))} |->
    With([flash_d_out \in {_flash_tp(distillate_comp, T_dist, P_cond, o.at_out)} |->
    With([flash_b_out \in {_flash_tp(bottoms_comp, T_bott, P_bott, o.at_out)} |->
    With([h_dist \in {IF Usable(flash_d_out)
                      THEN MolarToMass(flash_d_out.H, flash_d_out.MW_mix) ELSE Zero} |->
    With([h_bott \in {IF Usable(flash_b_out)
                      THEN MolarToMass(flash_b_out.H, flash_b_out.MW_mix) ELSE Zero} |->
    With([split \in {BoilingPointSplit(comp)} |->
    With([base \in {EqRes("DistillationColumn") @@
                    [numberOfStages |-> n_stages,
                     refluxRatio |-> reflux_ratio,
                     condenserPressure |-> Round(_pa_to_kpa(P_cond), 1000)]} |->
        IF Unreadable(params, {"numberOfStages", "refluxRatio", "condenserPressure"})
        THEN Raised
        ELSE IF fug_ok
        THEN Computed(
               [p \in {"out-1", "out-2"} |->
                  IF p = "out-1"
                  THEN Stream(T_dist, P_cond, RMul(mf, frac_dist), h_dist, Zero,
                              distillate_comp)
                  ELSE Stream(T_bott, P_bott, RMul(mf, RSub(One, frac_dist)), h_bott, Zero,
                              bottoms_comp)],
               base @@ [distillateTemperature |-> Round(_k_to_c(T_dist), 10),
                        bottomsTemperature |-> Round(_k_to_c(T_bott), 10)],
               (IF fl.fug.adjusted THEN <<Log("WARNING", nid)>> ELSE <<>>)
               \o <<Log("INFO", nid)>>)
        ELSE Computed(
               [p \in {"out-1", "out-2"} |->
                  IF p = "out-1"
                  THEN Stream(RSub(T_feed, Num(20)), P_cond, RMul(mf, Rat(1, 2)), Zero, Zero,
                              split.distillate)
                  ELSE Stream(RAdd(T_feed, Num(20)), RAdd(P_cond, Num(10000)),
                              RMul(mf, Rat(1, 2)), Zero, Zero, split.bottoms)],
               base,
               (IF fug_raised THEN <<Log("WARNING", nid)>> ELSE <<>>)
               \o <<Log("INFO", nid)>>)])])])])])])])])])])])])])])])])])])])])])])])])

\* lines 1691-1693, 1735-1737: volume / (mf / rho); no flow is an infinite time
ResidenceTime(volume, mf, rho) ==
    With([vol_flow \in {IF RLt(Zero, rho) THEN RDiv(mf, rho) ELSE Zero} |->
        IF RLt(Zero, vol_flow) /\ RLt(RDiv(volume, vol_flow), Num(1000000))
        THEN [finite |-> TRUE, v |-> Round(RDiv(volume, vol_flow), 10)]
        ELSE [finite |-> FALSE, v |-> Zero]])

\* lines 1684-1685, 1726-1727, 1770-1771: the operating point of a reactor
ReactorOutlet(inlet, params, comp_flash, comp_cp, answer) ==
    With([T_out \in {IF Param(params, "temperature").has
                     THEN _c_to_k(Param(params, "temperature").v) ELSE inlet.temperature} |->
    With([P_out \in {IF Param(params, "pressure").has
                     THEN _kpa_to_pa(Param(params, "pressure").v) ELSE inlet.pressure} |->
    With([flash_out \in {_flash_tp(comp_flash, T_out, P_out, answer)} |->
        [inlet EXCEPT
           !.temperature = T_out,
           !.pressure = P_out,
           !.enthalpy = IF Usable(flash_out)
                        THEN MolarToMass(flash_out.H, flash_out.MW_mix)
                        ELSE RMul(_estimate_cp(comp_cp), RSub(T_out, _T_REF))]])])])

\* lines 1673-1712
CSTRReactor(nid, inlets, params, pp, fl) ==
    LET inlet == inlets[1]
        comp == inlet.composition
        o == fl[Eos(pp)]
    IN
    With([volume \in {Get(params, "volume", Num(10))} |->
    With([outlet \in {ReactorOutlet(inlet, params, comp, comp, o.at_out)} |->
    With([rho \in {_get_density(comp, outlet.temperature, outlet.pressure, o.at_out)} |->
    With([eq_res \in {EqRes("CSTRReactor") @@
                      [volume |-> volume,
                       residenceTime |-> ResidenceTime(volume, inlet.mass_flow, rho),
                       outletTemperature |-> Round(_k_to_c(outlet.temperature), 100),
                       duty |-> Round(Get(params, "duty", Zero), 1000)]} |->
        IF Unreadable(params, {"volume", "temperature", "pressure", "duty"})
        THEN Raised
        ELSE Computed([p \in {"out-1"} |-> outlet], eq_res, <<Log("INFO", nid)>>)])])])])

\* lines 1714-1755.  The volume is pi (d/2)^2 L; the model carries the
\* factor of pi, and takes 22/7 for pi where the residence time is formed.
PFRReactor(nid, inlets, params, pp, fl) ==
    LET inlet == inlets[1]
        comp == inlet.composition
        o == fl[Eos(pp)]
    IN
    With([length \in {Get(params, "length", Num(5))} |->
    With([diameter \in {Get(params, "diameter", Rat(1, 2))} |->
    With([over_pi \in {RMul(RMul(RDiv(diameter, Num(2)), RDiv(diameter, Num(2))), length)} |->
    With([outlet \in {ReactorOutlet(inlet, params, comp, comp, o.at_out)} |->
    With([rho \in {_get_density(comp, outlet.temperature, outlet.pressure, o.at_out)} |->
    With([eq_res \in {EqRes("PFRReactor") @@
                      [volume_over_pi |-> over_pi,
                       length |-> length,
                       diameter |-> diameter,
                       residenceTime |-> ResidenceTime(RMul(Rat(22, 7), over_pi),
                                                       inlet.mass_flow, rho),
                       outletTemperature |-> Round(_k_to_c(outlet.temperature), 100)]} |->
        IF Unreadable(params, {"length", "diameter", "temperature", "pressure"})
        THEN Raised
        ELSE Computed([p \in {"out-1"} |-> outlet], eq_res, <<Log("INFO", nid)>>)])])])])])])

\* lines 1773-1786: the key reactant is converted to "products"
Converted(in_comp, conversion) ==
    IF DOMAIN in_comp = {} THEN in_comp
    ELSE LET key_reactant == Keys(in_comp)[1]
             consumed == RMul(in_comp[key_reactant], conversion)
             before == IF "products" \in DOMAIN in_comp THEN in_comp["products"] ELSE Zero
         IN
         With([out_comp \in {
                        [c \in DOMAIN in_comp \cup {"products"} |->
                            IF c = "products"
                            THEN IF key_reactant = "products"
                                 THEN in_comp[c]
                                 ELSE RAdd(before, consumed)
                            ELSE IF c = key_reactant THEN RSub(in_comp[c], consumed)
                            ELSE in_comp[c]]} |->
             IF RLt(Zero, CompSum(out_comp)) THEN Normalized(out_comp) ELSE out_comp])

\* lines 1757-1808
ConversionReactor(nid, inlets, params, pp, fl) ==
    LET inlet == inlets[1]
        in_comp == inlet.composition
        o == fl[Eos(pp)]
    IN
    With([conversion \in {Clamp(RDiv(Get(params, "conversion", Num(80)), Num(100)))} |->
    With([out_comp \in {Converted(in_comp, conversion)} |->
    With([outlet \in {[ReactorOutlet(inlet, params, _clean_composition(out_comp), out_comp,
                                     o.at_out)
                         EXCEPT !.composition = out_comp]} |->
    With([eq_res \in {EqRes("ConversionReactor") @@
                      [conversion |-> Round(RMul(conversion, Num(100)), 10),
                       outletTemperature |-> Round(_k_to_c(outlet.temperature), 100),
                       duty |-> Round(Get(params, "duty", Zero), 1000)]} |->
        IF Unreadable(params, {"conversion", "temperature", "pressure", "duty"})
        THEN Raised
        ELSE Computed([p \in {"out-1"} |-> outlet], eq_res,
                      (IF DOMAIN in_comp # {} THEN <<Log("INFO", nid)>> ELSE <<>>)
                      \o <<Log("INFO", nid)>>)])])])])

\* lines 765-1808: the branch of the node's type
UnitModel(nid, ntype, inlets, handles, params, pp, fl) ==
    CASE ntype \in {"Heater", "Cooler"} -> HeaterCooler(nid, ntype, inlets, params, pp, fl)
      [] ntype = "Pump" -> Pump(nid, inlets, params, pp, fl)
      [] ntype = "Compressor" -> Compressor(nid, inlets, params, pp, fl)
      [] ntype = "Valve" -> Valve(nid, inlets, params, pp, fl)
      [] ntype = "Mixer" -> Mixer(nid, inlets, params, pp, fl)
      [] ntype = "Splitter" -> Splitter(nid, inlets, params)
      [] ntype = "HeatExchanger" -> HeatExchanger(nid, inlets, handles, params, pp, fl)
      [] ntype = "Separator" -> Separator(nid, inlets, params, pp, fl)
      [] ntype = "DistillationColumn" -> DistillationColumn(nid, inlets, params, pp, fl)
      [] ntype = "CSTRReactor" -> CSTRReactor(nid, inlets, params, pp, fl)
      [] ntype = "PFRReactor" -> PFRReactor(nid, inlets, params, pp, fl)
      [] ntype = "ConversionReactor" -> ConversionReactor(nid, inlets, params, pp, fl)

\* lines 695-699
NrtlWarning(pp) == IF pp = "NRTL" THEN <<Log("WARNING_NRTL", EmptyId)>> ELSE <<>>

\* lines 706-714: edge.get raises on an edge that is not a mapping (707) and
\* n["id"] raises on a node without id (714); both land in line 1874
BasicSetupRaises ==
    \/ \E k \in DOMAIN edges : ~edges[k].mapping
    \/ \E k \in DOMAIN nodes : ~nodes[k].has_id

\* the log list outlives the call, as an attribute of the engine would
BasicBeginKeepsLogs ==
    /\ pc = "basic"
    /\ logs' = logs \o NrtlWarning(property_package)
    /\ has_errors' = FALSE
    /\ equipment_results' = <<>>
    /\ IF BasicSetupRaises
       THEN /\ ret' = ErrorRet("setup")
            /\ pc' = "done"
       ELSE /\ pc' = "sort"
            /\ UNCHANGED ret
    /\ UNCHANGED <<inputVars, frameVars, sortVars, engine_calls,
                   idx, port_conditions, inlets_of>>

\* lines 689-715, up to the call of _topological_sort
BasicBegin ==
    /\ pc = "basic"
    /\ logs' = NrtlWarning(property_package)
    /\ has_errors' = FALSE
    /\ equipment_results' = <<>>
    /\ IF BasicSetupRaises
       THEN /\ ret' = ErrorRet("setup")
            /\ pc' = "done"
       ELSE /\ pc' = "sort"
            /\ UNCHANGED ret
    /\ UNCHANGED <<inputVars, frameVars, sortVars, engine_calls,
                   idx, port_conditions, inlets_of>>

\* line 714: node_map; a later node with the same id replaces an earlier one
node_map(nid) ==
    nodes[CHOOSE k \in DOMAIN nodes :
            /\ nodes[k].id = nid
            /\ \A j \in DOMAIN nodes : nodes[j].id = nid => j <= k]

\* lines 718-723
RecycleWarning(cyc) == IF cyc # <<>> THEN <<Log("WARNING_RECYCLE", cyc[1])>> ELSE <<>>

\* lines 715-726: back from the sort
BeginLoop ==
    /\ pc = "sorted"
    /\ logs' = logs \o RecycleWarning(cycle_ids)
    /\ port_conditions' = <<>>
    /\ inlets_of' = <<>>
    /\ idx' = 1
    /\ pc' = "loop"
    /\ UNCHANGED <<inputVars, frameVars, sortVars, engine_calls,
                   equipment_results, has_errors, ret>>

\* lines 745-753: the source port an upstream edge from src is read at, which
\* is the sourceHandle of the first edge from src to nid
MatchedHandle(src, nid) ==
    AdjacencyHandle(edges[CHOOSE k \in DOMAIN edges :
                             /\ edges[k].source = src /\ edges[k].target = nid
                             /\ \A j \in DOMAIN edges :
                                   edges[j].source = src /\ edges[j].target = nid => k <= j])

\* lines 743-753: the inlets of nid, tagged with the target handle
Inlets(nid, pcond) ==
    LET up == SelectSeq(edges, LAMBDA e : e.target = nid)
        have == SelectSeq(up, LAMBDA e :
                   <<e.source, MatchedHandle(e.source, nid)>> \in DOMAIN pcond)
    IN  [k \in DOMAIN have |->
           [stream |-> pcond[<<have[k].source, MatchedHandle(have[k].source, nid)>>],
            handle |-> EdgeGet(have[k], "targetHandle", "")]]

\* lines 756-757
FeedStream(nid) == [origin |-> nid, port |-> "feed"]

InletsOrFeed(nid, pcond) ==
    IF Inlets(nid, pcond) = <<>>
    THEN <<[stream |-> FeedStream(nid), handle |-> ""]>>
    ELSE Inlets(nid, pcond)

\* the outlet ports each unit-operation model writes (765-1814)
OutPorts(type) ==
    IF type \in {"Splitter", "Separator", "DistillationColumn"}
    THEN {"out-1", "out-2"}
    ELSE IF type = "HeatExchanger" THEN {"out-hot", "out-cold"}
    ELSE {"out-1"}

\* the port map holds the outlets of the last node alone
StoreOutletsOfLast(nid, type, pcond) ==
    [k \in {<<nid, p>> : p \in OutPorts(type)} |-> [origin |-> nid, port |-> k[2]]]

\* lines 1816-1821
StoreOutlets(nid, type, pcond) ==
    [k \in {<<nid, p>> : p \in OutPorts(type)} |-> [origin |-> nid, port |-> k[2]]]
    @@ pcond

\* lines 762, 1824
ResultEntry(type) == [equipment_type |-> type]

\* line 1829
ErrorEntry == [error |-> "exc"]

Current == node_map(result[idx])

\* lines 734-737: a type without a model is skipped
SkipUnknown ==
    /\ pc = "loop"
    /\ idx <= Len(result)
    /\ Current.type \notin EQUIPMENT_TYPE_MAP
    /\ logs' = Append(logs, Log("SKIP", result[idx]))
    /\ idx' = idx + 1
    /\ UNCHANGED <<inputVars, frameVars, sortVars, engine_calls, ret, pc,
                   port_conditions, equipment_results, inlets_of, has_errors>>

\* lines 739-1824: the model of the node's type computed its outlets
ComputeNode ==
    /\ pc = "loop"
    /\ idx <= Len(result)
    /\ Current.type \in EQUIPMENT_TYPE_MAP
    /\ Current.parameters = "ok"
    /\ LET nid == result[idx] IN
          /\ inlets_of' = (nid :> InletsOrFeed(nid, port_conditions)) @@ inlets_of
          /\ port_conditions' = StoreOutlets(nid, Current.type, port_conditions)
          /\ equipment_results' = (nid :> ResultEntry(Current.type)) @@ equipment_results
          /\ logs' = Append(logs, Log("INFO", nid))
    /\ idx' = idx + 1
    /\ UNCHANGED <<inputVars, frameVars, sortVars, engine_calls, ret, pc, has_errors>>

\* the except clause replaces the result map instead of adding to it
FailureEntryAlone(nid, res) == (nid :> ErrorEntry)

\* lines 1825-1830: what the except clause records for nid
FailureEntry(nid, res) == (nid :> ErrorEntry) @@ res

\* lines 739-1814 raised, lines 1825-1830 caught it
FailNode ==
    /\ pc = "loop"
    /\ idx <= Len(result)
    /\ Current.type \in EQUIPMENT_TYPE_MAP
    /\ Current.parameters = "bad"
    /\ LET nid == result[idx] IN
          /\ inlets_of' = (nid :> InletsOrFeed(nid, port_conditions)) @@ inlets_of
          /\ equipment_results' = FailureEntry(nid, equipment_results)
          /\ logs' = Append(logs, Log("ERROR", nid))
    /\ has_errors' = TRUE
    /\ idx' = idx + 1
    /\ UNCHANGED <<inputVars, frameVars, sortVars, engine_calls, ret, pc,
                   port_conditions>>

\* the outlets of nid replace what was stored before
StoreUnitOutletsAlone(nid, outlets, pcond) ==
    [k \in {<<nid, p>> : p \in DOMAIN outlets} |->
        [outlets[k[2]] EXCEPT !.composition = _clean_composition(@)]]

\* lines 1816-1821: the outlets of nid with their compositions cleaned
StoreUnitOutlets(nid, outlets, pcond) ==
    [k \in {<<nid, p>> : p \in DOMAIN outlets} |->
        [outlets[k[2]] EXCEPT !.composition = _clean_composition(@)]]
    @@ pcond

\* lines 739-1830 on a node whose parameters and inlets are numbers: the
\* inlets are collected or the feed is built, the branch of the type runs,
\* and either its outlets and its result are stored or the except clause
\* records the failure
ComputeUnit ==
    /\ pc = "loop"
    /\ idx <= Len(result)
    /\ Current.type \in EQUIPMENT_TYPE_MAP
    /\ \E nid \in {result[idx]}, params \in {Current.parameters} :
       \E ups \in {Inlets(nid, port_conditions)} :
       \E feed_raises \in {ups = <<>> /\ Unreadable(params, FeedKeys)} :
       \E ins \in {IF feed_raises THEN <<>>
                   ELSE IF ups = <<>>
                   THEN <<[stream |-> _build_feed_from_params(params, thermo),
                           handle |-> ""]>>
                   ELSE ups} :
       \E out \in {IF feed_raises THEN Raised
                   ELSE UnitModel(nid, Current.type,
                                  [k \in DOMAIN ins |-> ins[k].stream],
                                  [k \in DOMAIN ups |-> ups[k].handle],
                                  params, property_package, thermo)} :
          /\ inlets_of' = (nid :> ins) @@ inlets_of
          /\ IF out.raised
             THEN /\ equipment_results' = FailureEntry(nid, equipment_results)
                  /\ logs' = Append(logs \o out.lines, Log("ERROR", nid))
                  /\ has_errors' = TRUE
                  /\ UNCHANGED port_conditions
             ELSE /\ port_conditions' = StoreUnitOutlets(nid, out.outlets, port_conditions)
                  /\ equipment_results' = (nid :> out.eq_res) @@ equipment_results
                  /\ logs' = logs \o out.lines
                  /\ UNCHANGED has_errors
    /\ idx' = idx + 1
    /\ UNCHANGED <<inputVars, frameVars, sortVars, engine_calls, ret, pc>>

\* a node failure is not reflected in the status
StatusAlwaysSuccess(errs) == "success"

\* line 1855
Status(errs) == IF errs THEN "partial" ELSE "success"

\* the cycles are left out of the converged flag
ConvergedIgnoringCycles(errs, cyc) == ~errs

\* line 1854
Converged(errs, cyc) == ~errs /\ cyc = <<>>

\* lines 1856-1862
ConvergenceInfo(errs, cyc) ==
    IF cyc # <<>>
    THEN [iterations |-> 1, converged |-> Converged(errs, cyc), recycle_detected |-> TRUE]
    ELSE [iterations |-> 1, converged |-> Converged(errs, cyc)]

\* the summary carries the values as they are stored
StreamSummaryUnrounded(cond) ==
    IF "temperature" \in DOMAIN cond
    THEN [temperature |-> _k_to_c(cond.temperature),
          pressure |-> _pa_to_kpa(cond.pressure),
          flowRate |-> cond.mass_flow,
          vapor_fraction |-> cond.vapor_fraction,
          composition |-> cond.composition]
    ELSE cond

\* lines 1840-1846: the summary of a stored stream, in display units; a
\* stream that is known only by the port that wrote it is its own summary
StreamSummary(cond) ==
    IF "temperature" \in DOMAIN cond
    THEN [temperature |-> Round(_k_to_c(cond.temperature), 100),
          pressure |-> Round(_pa_to_kpa(cond.pressure), 1000),
          flowRate |-> Round(cond.mass_flow, 10000),
          vapor_fraction |-> Round(cond.vapor_fraction, 10000),
          composition |-> cond.composition]
    ELSE cond

\* lines 1833-1846: one entry per edge whose source port is stored, keyed by
\* the position of the edge
StreamResults(es, pcond) ==
    [k \in {j \in DOMAIN es : <<es[j].source, ReportedHandle(es[j])>> \in DOMAIN pcond} |->
        StreamSummary(pcond[<<es[k].source, ReportedHandle(es[k])>>])]

\* the name does not depend on what is installed
engine_name_basic(lib) == "basic"

\* lines 1848-1852
engine_name(lib) ==
    IF lib.coolprop THEN "thermo_coolprop_fallback"
    ELSE IF lib.available THEN "thermo_fallback"
    ELSE "basic"

\* lines 1832-1872: the loop is over
Finish ==
    /\ pc = "loop"
    /\ idx > Len(result)
    /\ ret' = [status |-> Status(has_errors),
               engine |-> engine_name(thermo),
               property_package |-> property_package,
               stream_results |-> StreamResults(edges, port_conditions),
               equipment_results |-> equipment_results,
               convergence_info |-> ConvergenceInfo(has_errors, cycle_ids),
               logs |-> logs]
    /\ pc' = "done"
    /\ UNCHANGED <<inputVars, frameVars, sortVars, loopVars, engine_calls>>

Next ==
    \/ Simulate
    \/ DwsimStep
    \/ DwsimRaise
    \/ BasicBegin
    \/ SortInit
    \/ KahnStep
    \/ SortReturn
    \/ BeginLoop
    \/ SkipUnknown
    \/ ComputeNode
    \/ FailNode
    \/ Finish

\* --------------------------------------------------- inputs of a run
\* what a node can be to the loop: computable, raising, or of no known type
NodeKinds == <<<<"Heater", "ok">>, <<"Heater", "bad">>, <<"Gizmo", "ok">>>>

\* The engine treats ids as opaque keys and every iteration order of the id
\* set is explored, so a flowsheet is taken up to renaming of its nodes: the
\* kinds are assigned in non-decreasing order of the id.
KindChoices(n) ==
    {f \in [1..n -> DOMAIN NodeKinds] : \A a, b \in 1..n : a < b => f[a] <= f[b]}

\* n well-formed React Flow nodes with the ids 1..n
RunNodeLists(n) ==
    {[k \in 1..n |-> RawNode("nested", TRUE, k, NodeKinds[f[k]][1], NodeKinds[f[k]][2])] :
        f \in KindChoices(n)}

EdgeLists(n, m) ==
    {PairsToEdges(E) : E \in {F \in SUBSET ((1..n) \X (1..n)) : Cardinality(F) <= m}}

RunEdgeLists(n) == EdgeLists(n, MaxRunEdges)

InitLocals ==
    /\ pc = "start"
    /\ engine_calls = <<>>
    /\ nodes = <<>> /\ edges = <<>> /\ property_package = ""
    /\ node_ids = <<>> /\ incoming = <<>> /\ outgoing = <<>>
    /\ queue = <<>> /\ result = <<>> /\ cycle_ids = <<>>
    /\ idx = 0
    /\ port_conditions = <<>>
    /\ equipment_results = <<>>
    /\ inlets_of = <<>>
    /\ logs = <<>>
    /\ has_errors = FALSE
    /\ ret = NoneRet
    /\ thermo = NoThermo
    /\ route = NoRoute

Init ==
    /\ \E n \in 1..MaxRunNodes :
          \E ns \in RunNodeLists(n), es \in RunEdgeLists(n) :
             flowsheet_data = [nodes |-> ns, edges |-> es,
                               property_package |-> "PengRobinson"]
    /\ use_dwsim \in BOOLEAN
    /\ InitLocals

Spec == Init /\ [][Next]_vars

\* ------------------------------------- simulate on arbitrary caller input
\* what can be wrong with the first node or the first edge of the input
Defects == {"none", "node_without_id_nested", "node_without_id_flat",
            "data_not_mapping", "edge_not_mapping"}

Damage(fd, defect) ==
    LET n1 == fd.nodes[1]
        e1 == fd.edges[1]
    IN  CASE defect = "node_without_id_nested" ->
               [fd EXCEPT !.nodes[1] = RawNode("nested", FALSE, EmptyId, n1.type, n1.parameters)]
          [] defect = "node_without_id_flat" ->
               [fd EXCEPT !.nodes[1] = RawNode("flat", FALSE, EmptyId, n1.type, n1.parameters)]
          [] defect = "data_not_mapping" ->
               [fd EXCEPT !.nodes[1] = RawNode("baddata", TRUE, n1.id, "", "ok")]
          [] defect = "edge_not_mapping" ->
               [fd EXCEPT !.edges[1] = [e1 EXCEPT !.mapping = FALSE]]
          [] OTHER -> fd

Malformed(fd) ==
    \/ \E k \in DOMAIN fd.nodes : ~fd.nodes[k].has_id \/ fd.nodes[k].enc = "baddata"
    \/ \E k \in DOMAIN fd.edges : ~fd.edges[k].mapping

InitSimulate ==
    /\ \E n \in 0..MaxRunNodes :
          \E ns \in RunNodeLists(n), es \in EdgeLists(n, 1),
             pp \in {"PengRobinson", "SRK", "NRTL"}, defect \in Defects :
             /\ defect \in {"node_without_id_nested", "node_without_id_flat",
                            "data_not_mapping"} => ns # <<>>
             /\ defect = "edge_not_mapping" => es # <<>>
             /\ flowsheet_data =
                   Damage([nodes |-> ns, edges |-> es, property_package |-> pp], defect)
    /\ use_dwsim \in BOOLEAN
    /\ InitLocals

SpecSimulate == InitSimulate /\ [][Next]_vars

\* -------------------------------------------- runs with multi-port wiring
\* a Splitter (two outlet ports) and a Mixer (any number of inlets)
WireKinds == <<"Splitter", "Mixer">>

SourceHandles == {"out-1", "out-2"}

TargetHandles == {"in-1", "in-2"}

\* the edges a caller can draw between the two nodes, handles included
WireEdges ==
    {Edge(s, t, sh, th) : s \in DOMAIN WireKinds, t \in DOMAIN WireKinds,
                          sh \in SourceHandles, th \in TargetHandles}
    \cup {EdgeWithoutSourceHandle(s, t, th) :
             s \in DOMAIN WireKinds, t \in DOMAIN WireKinds, th \in TargetHandles}

InitWire ==
    /\ \E es \in SeqsUpTo(WireEdges, MaxWireEdges) :
          flowsheet_data =
             [nodes |-> [k \in DOMAIN WireKinds |->
                            RawNode("nested", TRUE, k, WireKinds[k], "ok")],
              edges |-> es,
              property_package |-> "PengRobinson"]
    /\ use_dwsim = FALSE
    /\ InitLocals

\* the self-contained tier alone, on nodes that all compute
NextWire ==
    \/ Simulate
    \/ BasicBegin
    \/ SortInit
    \/ KahnStep
    \/ SortReturn
    \/ BeginLoop
    \/ ComputeNode
    \/ Finish

SpecWire == InitWire /\ [][NextWire]_vars

\* ------------------------------------------------------ unit-level runs
\* A run of the self-contained tier in numbers: one unit operation, fed by
\* its own feed parameters or by up to MaxInlets source nodes, under a
\* property package and a behaviour of the thermo library.

\* what the library can answer to a flash
LiquidAnswer ==
    Answer(Num(900), Num(10), Zero, Given(Num(72)), Given(Num(800)), Absent, "feed", "feed")

TwoPhaseAnswer ==
    Answer(Num(2700), Num(20), Rat(1, 2), Absent, Given(Num(800)), Given(Num(8)),
           "methane", "ethane")

VaporAnswer ==
    Answer(Num(4500), Zero, One, Given(Num(36)), Absent, Given(Num(8)), "feed", "feed")

Behaviours ==
    {Behaviour(LiquidAnswer, VaporAnswer, Secondary(Rat(31315, 100), Num(3000), Rat(1, 4))),
     Behaviour(LiquidAnswer, VaporAnswer, SecondaryRaises),
     Behaviour(TwoPhaseAnswer, VaporAnswer, Secondary(Rat(31315, 100), Num(3000), Rat(1, 4))),
     Behaviour(TwoPhaseAnswer, NoAnswer, SecondaryRaises),
     Behaviour(LiquidAnswer, NoAnswer, Secondary(Rat(31315, 100), Num(3000), Rat(1, 4))),
     Behaviour(NoAnswer, VaporAnswer, SecondaryRaises),
     Behaviour(NoAnswer, NoAnswer, SecondaryRaises)}

AllFail == Behaviour(NoAnswer, NoAnswer, SecondaryRaises)

AllNames == Compounds \cup _PSEUDO

\* what the shortcut method arrives at
FugSharp ==
    [raises |-> FALSE, separable |-> TRUE, adjusted |-> FALSE, N_eff |-> Num(12),
     d |-> [c \in AllNames |-> IF c = "methane" THEN Rat(99, 100) ELSE Rat(1, 100)]]

FugResults ==
    {FugSharp,
     [FugSharp EXCEPT !.adjusted = TRUE],
     [FugSharp EXCEPT !.raises = TRUE],
     [FugSharp EXCEPT !.separable = FALSE]}

\* the unit-level runs are runs without CoolProp (lines 66-70 failed)
Library(available, pr, srk, fug) ==
    [available |-> available, coolprop |-> FALSE, PR |-> pr, SRK |-> srk,
     pow |-> Rat(11, 8), fug |-> fug]

\* the property package of a run with the library it runs against
Settings(fugs) ==
    {[pp |-> pp, lib |-> Library(FALSE, AllFail, AllFail, fug)] :
        pp \in {"PengRobinson", "NRTL"}, fug \in fugs}
    \cup {[pp |-> "PengRobinson", lib |-> Library(TRUE, b, b, fug)] :
             b \in Behaviours, fug \in fugs}
    \cup {[pp |-> "NRTL",
           lib |-> Library(TRUE, Behaviour(LiquidAnswer, VaporAnswer, SecondaryRaises),
                           AllFail, fug)] : fug \in fugs}
    \cup {[pp |-> "SRK",
           lib |-> Library(TRUE, AllFail,
                           Behaviour(LiquidAnswer, VaporAnswer, SecondaryRaises), fug)] :
             fug \in fugs}

\* parameter mappings
Choices(key, values) == {key :> v : v \in values}

Product(A, B) == {a @@ b : a \in A, b \in B}

ParamsWith(kvs, fc) ==
    [num |-> [k \in {j \in DOMAIN kvs : kvs[j].has} |-> kvs[k]], feedComposition |-> fc]

MethaneEthane == [c \in {"methane", "ethane"} |-> Rat(1, 2)]

\* the parameters a unit operation of the type is given
UnitSettings(ntype) ==
    CASE ntype \in {"Heater", "Cooler"} ->
           Product(Choices("pressureDrop", {Absent, Given(Num(10))}),
                   Choices("outletTemperature",
                           {Given(Num(200)), Given(Rat(3141, 125)), Given(Num(25)),
                            Given(Num(10)), Text})
                   \cup Choices("duty", {Absent, Given(Zero), Given(One)}))
      [] ntype \in {"Pump", "Compressor"} ->
           Product(Choices("outletPressure", {Absent, Given(Num(300)), Text}),
                   Choices("efficiency", {Absent, Given(Zero), Given(Num(50)), Text}))
      [] ntype = "Valve" ->
           Choices("outletPressure",
                   {Absent, Given(Num(500)), Given(Rat(5001234, 10000)), Given(Num(50)), Text})
      [] ntype = "Mixer" ->
           Choices("pressureDrop", {Absent, Given(Num(10)), Text})
      [] ntype = "Splitter" ->
           Choices("splitRatio",
                   {Absent, Given(Rat(-1, 2)), Given(Zero), Given(Rat(1, 4)), Given(Rat(1, 2)),
                    Given(One), Given(Rat(3, 2)), Text})
      [] ntype = "HeatExchanger" ->
           Product(Choices("hotOutletTemp", {Absent, Given(Num(40))}),
                   Choices("coldOutletTemp", {Absent, Given(Num(30))}))
           \cup Choices("hotOutletTemp", {Text})
      [] ntype = "Separator" ->
           Product(Choices("temperature", {Absent, Given(Num(50)), Text}),
                   Choices("pressure", {Absent, Given(Num(200))}))
      [] ntype = "DistillationColumn" ->
           Choices("condenserPressure", {Absent, Given(Num(150)), Text})
      [] ntype = "CSTRReactor" ->
           Product(Choices("volume", {Absent, Given(Num(2)), Text}),
                   Choices("temperature", {Absent, Given(Num(80))}))
      [] ntype = "PFRReactor" ->
           Product(Choices("length", {Absent, Given(Num(2)), Text}),
                   Choices("temperature", {Absent, Given(Num(80))}))
      [] ntype = "ConversionReactor" ->
           Product(Choices("conversion",
                           {Absent, Given(Zero), Given(Num(100)), Given(Num(150)), Text}),
                   Choices("temperature", {Absent, Given(Num(80))}))

\* the feed parameters of a unit operation without upstream node
OwnFeeds(ntype) ==
    {ParamsWith("feedFlowRate" :> ff, NoComposition) :
        ff \in IF ntype \in {"Heater", "Cooler", "Splitter"}
               THEN {Absent, Given(Zero), Given(Rat(1, 10000)), Given(Num(-1))}
               ELSE {Absent}}
    \cup {ParamsWith(("feedPressure" :> Given(Num(1000))) @@ ("feedFlowRate" :> Given(Num(3))),
                     GivenComposition(MethaneEthane)),
          ParamsWith("feedTemperature" :> Text, NoComposition)}

\* the source nodes: a Splitter that passes its whole feed to out-1
SourceFeed(T_c, P_kpa, mf, comp) ==
    ParamsWith(("feedTemperature" :> Given(T_c)) @@ ("feedPressure" :> Given(P_kpa))
               @@ ("feedFlowRate" :> Given(mf)) @@ ("splitRatio" :> Given(One)),
               GivenComposition(comp))

Sources ==
    {SourceFeed(Num(25), Num(500), One, Pure("methane")),
     SourceFeed(Num(80), Num(500), Num(2), Pure("ethane")),
     SourceFeed(Num(25), Num(1000), Zero, MethaneEthane),
     SourceFeed(Num(25), Num(200), One, Pure("water"))}

UnitTypes ==
    {"Heater", "Cooler", "Pump", "Compressor", "Valve", "Mixer", "Splitter",
     "HeatExchanger", "Separator", "DistillationColumn", "CSTRReactor", "PFRReactor",
     "ConversionReactor"}

\* how many source nodes a unit operation of the type is fed by
SourceCounts(ntype) ==
    CASE ntype = "Mixer" -> 0..MaxInlets
      [] ntype = "HeatExchanger" -> 0..2
      [] OTHER -> 0..1

\* the target handles of the edges from the sources
HandleChoices(ntype, k) ==
    IF ntype = "HeatExchanger"
    THEN {h \in [1..k -> {"in-hot", "in-cold"}] : \A a, b \in 1..k : a # b => h[a] # h[b]}
         \cup {[i \in 1..k |-> IF i = 1 THEN "in-1" ELSE "in-2"]}
         \cup {h \in {<<"in-1", "in-hot">>, <<"in-cold", "in-2">>, <<"in-hot", "in-hot">>} :
                  Len(h) = k}
    ELSE {[i \in 1..k |-> "in-1"]}

\* how many nodes the unit operation's out-1 feeds
SinkCounts(ntype) == IF ntype = "Valve" THEN {0, 1} ELSE {0}

\* the flowsheet of a unit-level run: the sources 1..k, the unit k+1 and,
\* with a sink, a Mixer k+2 that the unit's out-1 feeds
UnitFlowsheet(ntype, kvs, feed, srcs, handles, sinks) ==
    LET k == Len(srcs)
    IN  [nodes |-> [i \in 1..(k + 1 + sinks) |->
                      IF i <= k THEN RawNode("nested", TRUE, i, "Splitter", srcs[i])
                      ELSE IF i = k + 1
                      THEN RawNode("nested", TRUE, i, ntype,
                                   ParamsWith(kvs @@ feed.num, feed.feedComposition))
                      ELSE RawNode("nested", TRUE, i, "Mixer", NoParams)],
         edges |-> [i \in 1..(k + sinks) |->
                      IF i <= k THEN Edge(i, k + 1, "out-1", handles[i])
                      ELSE Edge(k + 1, k + 2, "out-1", "in-1")]]

UnitFlowsheets(ntype) ==
    {UnitFlowsheet(ntype, kvs, feed, <<>>, <<>>, sinks) :
        kvs \in UnitSettings(ntype), feed \in OwnFeeds(ntype), sinks \in SinkCounts(ntype)}
    \cup UNION {{UnitFlowsheet(ntype, kvs, NoParams, srcs, handles, sinks) :
                    kvs \in UnitSettings(ntype), srcs \in [1..k -> Sources],
                    handles \in HandleChoices(ntype, k), sinks \in SinkCounts(ntype)} :
                k \in SourceCounts(ntype) \ {0}}

\* the run stands at the head of the loop over the sorted ids (line 728):
\* simulate normalized the nodes (324-338), _simulate_basic wrote the NRTL
\* warning (694-699) and sorted the ids, sources first, sink last (715)
InitUnits ==
    /\ \E ntype \in UnitTypes :
          \E fs \in UnitFlowsheets(ntype),
             st \in Settings(IF ntype = "DistillationColumn" THEN FugResults ELSE {FugSharp}) :
             /\ flowsheet_data = [nodes |-> fs.nodes, edges |-> fs.edges,
                                  property_package |-> st.pp]
             /\ nodes = _normalize_nodes(fs.nodes)
             /\ edges = fs.edges
             /\ property_package = st.pp
             /\ thermo = st.lib
             /\ result = [i \in DOMAIN fs.nodes |-> i]
             /\ logs = NrtlWarning(st.pp)
    /\ use_dwsim = FALSE
    /\ pc = "loop"
    /\ engine_calls = <<"basic">>
    /\ node_ids = <<>> /\ incoming = <<>> /\ outgoing = <<>>
    /\ queue = <<>> /\ cycle_ids = <<>>
    /\ idx = 1
    /\ port_conditions = <<>>
    /\ equipment_results = <<>>
    /\ inlets_of = <<>>
    /\ has_errors = FALSE
    /\ ret = NoneRet
    /\ route = NoRoute

NextUnits == ComputeUnit \/ Finish

SpecUnits == InitUnits /\ [][NextUnits]_vars

\* ---------------------------------------------------- graph predicates
\* the edges the sort looks at: both endpoints in the node set
InnerEdges == {<<edges[k].source, edges[k].target>> : k \in
                 {j \in DOMAIN edges : /\ edges[j].mapping
                                       /\ edges[j].source \in NodeIdSet(nodes)
                                       /\ edges[j].target \in NodeIdSet(nodes)}}

\* nodes reachable from n by one or more inner edges
RECURSIVE ReachFrom(_, _)
ReachFrom(S, E) ==
    LET T == S \cup {e[2] : e \in {d \in E : d[1] \in S}}
    IN  IF T = S THEN S ELSE ReachFrom(T, E)

Succ(n, E) == {e[2] : e \in {d \in E : d[1] = n}}

Reachable(n, E) == ReachFrom(Succ(n, E), E)

OnCycle(n, E) == n \in Reachable(n, E)

Acyclic(E) == \A e \in E : ~OnCycle(e[1], E)

\* a and b occur in s, and every occurrence of a precedes every one of b
Before(s, a, b) ==
    /\ a \in Range(s)
    /\ b \in Range(s)
    /\ \A i, j \in DOMAIN s : s[i] = a /\ s[j] = b => i < j

Ids == NodeIdSet(nodes)

CyclicNodes == {n \in Ids : OnCycle(n, InnerEdges)}

\* ------------------------------------------------------------------ C1
\* C1: when the edges between nodes of the node list form an acyclic graph,
\* the order returned by _topological_sort has the source of every such edge
\* before its target, and cycle_ids is empty.
C1_AcyclicOrder ==
    (pc = "sorted" /\ Acyclic(InnerEdges)) =>
        /\ cycle_ids = <<>>
        /\ \A e \in InnerEdges : Before(result, e[1], e[2])

\* an acyclic graph of three edges on three nodes has been sorted
C1_Witness ==
    /\ pc = "sorted"
    /\ Acyclic(InnerEdges)
    /\ Cardinality(InnerEdges) = 3
    /\ Len(result) = 3

\* ------------------------------------------------------------------ C2
\* C2: every node that lies on a directed cycle (a self-loop included) is
\* returned in cycle_ids and is also part of ordered_ids.
C2_CycleNodesReported ==
    pc = "sorted" =>
        \A n \in CyclicNodes : n \in Range(cycle_ids) /\ n \in Range(result)

\* the cycle 1 -> 2 -> 3 -> 1 has been sorted, and so has a self-loop
C2_Witness ==
    /\ pc = "sorted"
    /\ Cardinality(CyclicNodes) = 3
    /\ Cardinality(InnerEdges) = 3
    /\ \A e \in InnerEdges : e[1] # e[2]
    /\ Range(cycle_ids) = CyclicNodes

\* ------------------------------------------------------------------ C3
\* C3 as stated: every node returned in cycle_ids lies on a directed cycle.
C3_Original ==
    pc = "sorted" => \A n \in Range(cycle_ids) : OnCycle(n, InnerEdges)

\* C3 as amended: every node returned in cycle_ids lies on a directed cycle
\* or can be reached from a node that lies on one.
C3_CycleOrDownstream ==
    pc = "sorted" =>
        \A n \in Range(cycle_ids) :
            \E m \in CyclicNodes : n = m \/ n \in Reachable(m, InnerEdges)

\* a node downstream of a cycle, on no cycle itself, was returned in cycle_ids
C3_Witness ==
    /\ pc = "sorted"
    /\ \E n \in Range(cycle_ids) : ~OnCycle(n, InnerEdges)

\* ------------------------------------------------- the self-contained run
\* the sort has returned inside a self-contained run
SortReturned == pc \in {"sorted", "loop"} \/ (pc = "done" /\ result # <<>>)

\* _simulate_basic returned a populated result
BasicReturned == pc = "done" /\ "engine" \in DOMAIN ret /\ ret.engine = "basic"

KnownNodes == {n \in Ids : node_map(n).type \in EQUIPMENT_TYPE_MAP}

FailingNodes == {n \in KnownNodes : node_map(n).parameters = "bad"}

\* the nodes the loop has been through, in the order it went through them
ProcessedOrder ==
    LET ls == SelectSeq(logs, LAMBDA l : l.kind \in {"INFO", "ERROR", "SKIP"})
    IN  [k \in DOMAIN ls |-> ls[k].node]

\* how many times the model of node n ran (to its end or to an exception)
TimesComputed(n) ==
    Cardinality({k \in DOMAIN logs : logs[k].node = n /\ logs[k].kind \in {"INFO", "ERROR"}})

HasErrorEntry(n) == n \in DOMAIN equipment_results /\ equipment_results[n] = ErrorEntry

HasLog(kind, n) == \E k \in DOMAIN logs : logs[k] = Log(kind, n)

\* ------------------------------------------------------------------ C4
\* C4: ordered_ids holds every node id exactly once, the dequeued nodes
\* before the nodes of cycle_ids, and the self-contained run computes every
\* node of a known equipment type exactly once and gives it exactly one entry
\* of equipment_results.
C4_NoNodeDroppedOrRepeated ==
    /\ SortReturned =>
          /\ Range(result) = Ids
          /\ Len(result) = Cardinality(Ids)
          /\ Len(cycle_ids) <= Len(result)
          /\ SubSeq(result, Len(result) - Len(cycle_ids) + 1, Len(result)) = cycle_ids
    /\ BasicReturned =>
          /\ DOMAIN equipment_results = KnownNodes
          /\ \A n \in KnownNodes : TimesComputed(n) = 1

\* a run over a cycle and a node outside it returned, all three nodes computed
C4_Witness ==
    /\ BasicReturned
    /\ Cardinality(KnownNodes) = 3
    /\ Len(cycle_ids) = 2
    /\ DOMAIN equipment_results = KnownNodes

\* ------------------------------------------------------------------ C5
\* C5: in a self-contained run of an acyclic flowsheet, every node that is
\* the source of an incoming edge of a node has been through the loop before
\* that node, so the node reads an outlet its predecessor has already written.
C5_InletBeforeOutletRead ==
    (pc \in {"loop", "done"} /\ Acyclic(InnerEdges)) =>
        \A k \in DOMAIN ProcessedOrder :
            \A e \in InnerEdges :
                e[2] = ProcessedOrder[k] =>
                    /\ \E j \in 1..(k - 1) : ProcessedOrder[j] = e[1]
                    /\ (/\ e[1] \in KnownNodes \ FailingNodes
                        /\ e[2] \in KnownNodes) =>
                           \E i \in DOMAIN inlets_of[e[2]] :
                               inlets_of[e[2]][i].stream.origin = e[1]

\* a chain of three computable nodes went through the loop
C5_Witness ==
    /\ BasicReturned
    /\ Acyclic(InnerEdges)
    /\ Cardinality(InnerEdges) = 2
    /\ Cardinality(KnownNodes \ FailingNodes) = 3
    /\ \E e, f \in InnerEdges : e[2] = f[1]

\* ------------------------------------------------------------------ C6
\* C6: when the computation of a node raises, the node's entry of
\* equipment_results is exactly the error marker, an ERROR line is logged for
\* it, no outlet is stored for it, the other nodes of known type still get
\* their own entries, and the run returns a populated result.
C6_FailureIsolation ==
    /\ pc \in {"loop", "done"} =>
          \A n \in FailingNodes :
              n \in Range(ProcessedOrder) =>
                  /\ HasErrorEntry(n)
                  /\ HasLog("ERROR", n)
                  /\ \A key \in DOMAIN port_conditions : key[1] # n
                  /\ \A m \in Range(ProcessedOrder) \cap (KnownNodes \ {n}) :
                        /\ m \in DOMAIN equipment_results
                        /\ m \notin FailingNodes =>
                              equipment_results[m] = ResultEntry(node_map(m).type)
    /\ (pc = "done" /\ Last(engine_calls) = "basic") =>
          /\ BasicReturned
          /\ Range(ProcessedOrder) = Ids

\* a run returned in which the first node of the order failed and a later one
\* was computed
C6_Witness ==
    /\ BasicReturned
    /\ Len(result) = 3
    /\ result[1] \in FailingNodes
    /\ \E k \in 2..3 : /\ result[k] \in KnownNodes \ FailingNodes
                       /\ equipment_results[result[k]] = ResultEntry("Heater")

\* ------------------------------------------------------------------ C7
\* C7 as stated: the status is "error" when every node's computation failed,
\* "partial" when some but not all failed, "success" when none failed.
C7_Original ==
    BasicReturned =>
        ret.status = IF FailingNodes = Ids THEN "error"
                     ELSE IF FailingNodes # {} THEN "partial"
                     ELSE "success"

\* C7 as amended: the status of a run that reached its end is "partial" when
\* at least one node's computation failed, all of them included, and
\* "success" when none failed; it is never "error".
C7_StatusPartialOrSuccess ==
    BasicReturned =>
        ret.status = IF \E n \in Ids : HasErrorEntry(n) THEN "partial" ELSE "success"

\* a run returned in which every node failed
C7_Witness ==
    /\ BasicReturned
    /\ Cardinality(Ids) >= 2
    /\ \A n \in Ids : HasErrorEntry(n)
    /\ ret.status = "partial"

\* ------------------------------------------------------------------ C8
\* C8: the convergence info of a self-contained result has iterations = 1,
\* converged exactly when no node recorded an error and cycle_ids is empty,
\* and recycle_detected = true exactly when cycle_ids is not empty; a
\* flowsheet with a cycle gets converged = false, recycle_detected = true, a
\* recycle WARNING line and a status other than "error".
C8_ConvergenceInfo ==
    BasicReturned =>
        LET ci == ret.convergence_info IN
        /\ ci.iterations = 1
        /\ ci.converged <=> ((\A n \in Ids : ~HasErrorEntry(n)) /\ cycle_ids = <<>>)
        /\ "recycle_detected" \in DOMAIN ci <=> cycle_ids # <<>>
        /\ "recycle_detected" \in DOMAIN ci => ci.recycle_detected
        /\ CyclicNodes # {} =>
              /\ ~ci.converged
              /\ "recycle_detected" \in DOMAIN ci
              /\ \E k \in DOMAIN logs : logs[k].kind = "WARNING_RECYCLE"
              /\ ret.status # "error"

\* a run over a cycle returned without any node error
C8_Witness ==
    /\ BasicReturned
    /\ Cardinality(CyclicNodes) = 2
    /\ FailingNodes = {}
    /\ ret.status = "success"
    /\ ~ret.convergence_info.converged

\* ------------------------------------------------------------------ C9
BasicPcs == {"basic", "sort", "kahn", "sorted", "loop"}

\* C9: with the full engine available simulate enters it first; when it
\* raises, simulate does not raise but runs the self-contained tier on the
\* same nodes, edges and property package and returns its result; when it
\* completes no self-contained tier runs; without it the self-contained tier
\* runs directly.
C9_TierFallback ==
    /\ engine_calls # <<>> =>
          /\ engine_calls[1] = (IF use_dwsim THEN "dwsim" ELSE "basic")
          /\ pc # "raised"
    /\ pc \in DwsimSteps => engine_calls = <<"dwsim">>
    /\ pc \in BasicPcs =>
          /\ Last(engine_calls) = "basic"
          /\ nodes = _normalize_nodes(flowsheet_data.nodes)
          /\ edges = flowsheet_data.edges
          /\ property_package = flowsheet_data.property_package
    /\ (pc = "done" /\ engine_calls = <<"dwsim">>) =>
          /\ ret = DwsimRet
          /\ logs = <<>> /\ result = <<>> /\ equipment_results = <<>>
    /\ (pc = "done" /\ engine_calls = <<"dwsim", "basic">>) =>
          /\ ret.status \in {"success", "partial", "error"}
          /\ ret.status # "error" =>
                /\ ret.engine = "basic"
                /\ ret.property_package = flowsheet_data.property_package

\* the full engine raised and the self-contained tier returned a result
C9_Witness ==
    /\ pc = "done"
    /\ engine_calls = <<"dwsim", "basic">>
    /\ ret.status = "success"
    /\ ret.property_package = "SRK"
    /\ Len(result) >= 2

\* ----------------------------------------------------------------- C10
\* C10: for an empty node list or a malformed node or edge simulate returns
\* a result of status "error" with a message; it does not raise and does not
\* return "success" or "partial".
C10_InputErrors ==
    (flowsheet_data.nodes = <<>> \/ Malformed(flowsheet_data)) =>
        /\ pc # "raised"
        /\ pc = "done" => ret.status = "error" /\ "error" \in DOMAIN ret

\* ----------------------------------------------------------------- C11
\* the nodes some edge of the flowsheet points at
HasUpstreamEdge(n) == \E k \in DOMAIN edges : edges[k].target = n

\* the node computed from a feed built from its own parameters
ComputedFromFeed(n) ==
    /\ n \in DOMAIN inlets_of
    /\ \E i \in DOMAIN inlets_of[n] : inlets_of[n][i].stream = FeedStream(n)

\* C11: a node's inlet is synthesized from its own feed parameters if and
\* only if no edge points at the node; a node with at least one incoming
\* edge never computes from a synthesized feed.
C11_FeedOnlyWithoutUpstream ==
    \A n \in DOMAIN inlets_of : ComputedFromFeed(n) <=> ~HasUpstreamEdge(n)

\* ----------------------------------------------------------------- C12
\* the ports that were stored when the loop reached node n
StoredBefore(n) ==
    {key \in DOMAIN port_conditions :
        \E i, j \in DOMAIN ProcessedOrder :
            i < j /\ ProcessedOrder[i] = key[1] /\ ProcessedOrder[j] = n}

\* per incoming edge of n whose own source port was stored: the stream of
\* that port, tagged with the edge's target handle
EdgeInlets(n) ==
    LET up == SelectSeq(edges, LAMBDA e :
                 e.target = n /\ <<e.source, AdjacencyHandle(e)>> \in StoredBefore(n))
    IN  [k \in DOMAIN up |->
           [stream |-> port_conditions[<<up[k].source, AdjacencyHandle(up[k])>>],
            handle |-> EdgeGet(up[k], "targetHandle", "")]]

\* C12: for every incoming edge (s, sourceHandle) -> (n, targetHandle) whose
\* source port has a stored outlet when n is processed, n's inlet list holds
\* for that edge exactly the stream stored under (s, sourceHandle), tagged
\* with the edge's targetHandle; two edges leaving different ports of one
\* source into the same target deliver the two different port streams.
C12_PortAwareWiring ==
    \A n \in DOMAIN inlets_of : EdgeInlets(n) # <<>> => inlets_of[n] = EdgeInlets(n)

\* ------------------------------------------- unit-level run predicates
\* the nodes of a type whose branch ran to its end
ComputedUnits(types) ==
    {n \in DOMAIN equipment_results :
        /\ node_map(n).type \in types
        /\ "equipment_type" \in DOMAIN equipment_results[n]}

\* the first inlet the branch of n read, and the outlet it stored
InletOf(n) == inlets_of[n][1].stream

OutletOf(n, port) == port_conditions[<<n, port>>]

ParamsOf(n) == node_map(n).parameters

\* ----------------------------------------------------------------- C13
\* the ratio the parameters ask for: the default 0.5, or the given ratio
\* brought into [0, 1]
AskedRatio(n) ==
    LET given == Param(ParamsOf(n), "splitRatio")
    IN  IF ~given.has THEN Rat(1, 2)
        ELSE IF RLt(given.v, Zero) THEN Zero
        ELSE IF RLt(One, given.v) THEN One
        ELSE given.v

\* C13: for every inlet mass flow mf and every splitRatio parameter
\* (clamped to [0,1], default 0.5) a Splitter's out-1 carries mf*r and
\* out-2 carries mf*(1-r), so the two outlet flows add up to the inlet flow,
\* and with mf >= 0 neither outlet is negative nor above the inlet flow.
C13_SplitterConservation ==
    \A n \in ComputedUnits({"Splitter"}) :
        LET mf == InletOf(n).mass_flow
            r == AskedRatio(n)
            out1 == OutletOf(n, "out-1").mass_flow
            out2 == OutletOf(n, "out-2").mass_flow
        IN  /\ equipment_results[n].splitRatio = r
            /\ out1 = RMul(mf, r)
            /\ out2 = RMul(mf, RSub(One, r))
            /\ RAdd(out1, out2) = mf
            /\ RLe(Zero, mf) =>
                  /\ RLe(Zero, out1) /\ RLe(out1, mf)
                  /\ RLe(Zero, out2) /\ RLe(out2, mf)

\* a Splitter with a positive inlet flow and a ratio above 1 has split
C13_Witness ==
    \E n \in ComputedUnits({"Splitter"}) :
        /\ RLt(Zero, InletOf(n).mass_flow)
        /\ Param(ParamsOf(n), "splitRatio").has
        /\ RLt(One, Param(ParamsOf(n), "splitRatio").v)
        /\ OutletOf(n, "out-1").mass_flow = InletOf(n).mass_flow
        /\ OutletOf(n, "out-2").mass_flow = Zero

\* ----------------------------------------------------------------- C14
\* the mole fractions of a stored outlet add up to one
SumsToOne(comp) == RSum(comp, DOMAIN comp) = One

\* C14: after any Mixer or Separator computation (flash path or fallback
\* path, any inlet mass flows including zero, any number of inlets) the
\* mole fractions of each outlet composition sum to 1.
C14_CompositionSumsToOne ==
    \A n \in ComputedUnits({"Mixer", "Separator"}) :
        \A port \in {"out-1", "out-2"} :
            <<n, port>> \in DOMAIN port_conditions =>
                SumsToOne(OutletOf(n, port).composition)

\* a Mixer whose inlets carry no flow stores an outlet without composition
C14_ZeroFlowMixer ==
    \E n \in ComputedUnits({"Mixer"}) :
        /\ \A k \in DOMAIN inlets_of[n] :
              /\ inlets_of[n][k].stream.mass_flow = Zero
              /\ SumsToOne(inlets_of[n][k].stream.composition)
        /\ OutletOf(n, "out-1").composition = <<>>

\* ----------------------------------------------------------------- C15
\* the streams the branch of n read
InletsOf(n) == [k \in DOMAIN inlets_of[n] |-> inlets_of[n][k].stream]

\* the pressureDrop parameter in Pa, 0 when it is not given
AskedDrop(n) ==
    IF Param(ParamsOf(n), "pressureDrop").has
    THEN RMul(Param(ParamsOf(n), "pressureDrop").v, Num(1000))
    ELSE Zero

\* C15: for any N >= 1 inlets the Mixer outlet mass flow is the sum of the
\* inlet mass flows, its pressure is the minimum inlet pressure minus the
\* pressureDrop parameter (default 0, so never above any inlet pressure),
\* and its composition contains every compound that an inlet of positive
\* flow holds with a positive fraction.
C15_MixerBalance ==
    \A n \in ComputedUnits({"Mixer"}) :
        LET ins == InletsOf(n)
            out == OutletOf(n, "out-1")
        IN  /\ Len(ins) >= 1
            /\ out.mass_flow = RSum([k \in DOMAIN ins |-> ins[k].mass_flow], DOMAIN ins)
            /\ \E k \in DOMAIN ins :
                  /\ \A j \in DOMAIN ins : RLe(ins[k].pressure, ins[j].pressure)
                  /\ out.pressure = RSub(ins[k].pressure, AskedDrop(n))
            /\ ~Param(ParamsOf(n), "pressureDrop").has =>
                  \A k \in DOMAIN ins : RLe(out.pressure, ins[k].pressure)
            /\ \A k \in DOMAIN ins : \A c \in DOMAIN ins[k].composition :
                  RLt(Zero, ins[k].mass_flow) /\ RLt(Zero, ins[k].composition[c]) =>
                      /\ c \in DOMAIN out.composition
                      /\ RLt(Zero, out.composition[c])

\* a Mixer has mixed two inlets of different pressure, flow and compound
C15_Witness ==
    \E n \in ComputedUnits({"Mixer"}) :
        LET ins == InletsOf(n)
            out == OutletOf(n, "out-1")
        IN  /\ Len(ins) = 2
            /\ ins[1].pressure # ins[2].pressure
            /\ RLt(Zero, ins[1].mass_flow) /\ RLt(Zero, ins[2].mass_flow)
            /\ DOMAIN ins[1].composition # DOMAIN ins[2].composition
            /\ Param(ParamsOf(n), "pressureDrop").has
            /\ out.mass_flow = RAdd(ins[1].mass_flow, ins[2].mass_flow)
            /\ DOMAIN out.composition =
                  DOMAIN ins[1].composition \cup DOMAIN ins[2].composition

\* ----------------------------------------------------------------- C16
\* the log lines the branch of n wrote
LinesOf(n) == {i \in DOMAIN logs : logs[i].node = n}

\* the summaries of the streams that leave a port of n, once the run is over
SummariesOf(n, port) ==
    IF pc = "done" /\ "stream_results" \in DOMAIN ret
    THEN {ret.stream_results[k] :
            k \in {j \in DOMAIN ret.stream_results :
                     edges[j].source = n /\ ReportedHandle(edges[j]) = port}}
    ELSE {}

\* what the claim says apart from the stream summary: the outlet pressure
\* is the given kPa times 1000, or half the inlet pressure; flow and
\* composition pass through; one log line
ValveOutlet(n) ==
    LET given == Param(ParamsOf(n), "outletPressure")
        out == OutletOf(n, "out-1")
    IN  /\ given.has => out.pressure = RMul(given.v, Num(1000))
        /\ ~given.has => out.pressure = RDiv(InletOf(n).pressure, Num(2))
        /\ out.mass_flow = InletOf(n).mass_flow
        /\ out.composition = InletOf(n).composition
        /\ Cardinality(LinesOf(n)) = 1

\* C16 as stated: when outletPressure (kPa) is specified the Valve's outlet
\* pressure is exactly that value times 1000 Pa and the stream summary
\* reports exactly the specified kPa; unspecified, the outlet pressure is half
\* the inlet pressure; mass flow and composition pass through unchanged and
\* one log line for the valve is appended.
C16_Original ==
    \A n \in ComputedUnits({"Valve"}) :
        /\ ValveOutlet(n)
        /\ Param(ParamsOf(n), "outletPressure").has =>
              \A summary \in SummariesOf(n, "out-1") :
                  summary.pressure = Param(ParamsOf(n), "outletPressure").v

\* C16 amended: as stated, but the stream summary reports the specified kPa
\* rounded to three decimals.
C16_ValveOutletPressure ==
    \A n \in ComputedUnits({"Valve"}) :
        /\ ValveOutlet(n)
        /\ Param(ParamsOf(n), "outletPressure").has =>
              \A summary \in SummariesOf(n, "out-1") :
                  summary.pressure = Round(Param(ParamsOf(n), "outletPressure").v, 1000)

\* a Valve with a specified outlet pressure of more than three decimals
\* feeds a stream whose summary is in the result
C16_Witness ==
    \E n \in ComputedUnits({"Valve"}) :
        /\ Param(ParamsOf(n), "outletPressure").has
        /\ Param(ParamsOf(n), "outletPressure").v = Rat(5001234, 10000)
        /\ OutletOf(n, "out-1").pressure = Rat(5001234, 10)
        /\ \E summary \in SummariesOf(n, "out-1") : summary.pressure = Rat(500123, 1000)

\* ----------------------------------------------------------------- C17
\* the feed Heater/Cooler nodes that were computed for a given outlet
\* temperature and a positive feed flow
FeedHeaters ==
    {n \in ComputedUnits({"Heater", "Cooler"}) :
        /\ \A k \in DOMAIN edges : edges[k].target # n
        /\ Param(ParamsOf(n), "outletTemperature").has
        /\ RLt(Zero, InletOf(n).mass_flow)}

\* the specified outlet temperature of n in K
AskedT(n) == RAdd(Param(ParamsOf(n), "outletTemperature").v, Rat(27315, 100))

\* the run of a flowsheet that is this one node ends with status success
EndsInSuccess(n) ==
    pc = "done" /\ Len(nodes) = 1 => ret.status = "success" /\ ~has_errors

\* -1, 0, 1
Sign(a) == IF a[1] > 0 THEN 1 ELSE IF a[1] < 0 THEN -1 ELSE 0

\* the duty of n was computed from the library's enthalpies at the inlet
\* and at the outlet conditions (lines 781-784)
ByEnthalpy(n) ==
    LET o == thermo[Eos(property_package)]
        inlet == InletOf(n)
        out == OutletOf(n, "out-1")
    IN  /\ Usable(_flash_tp(inlet.composition, inlet.temperature, inlet.pressure, o.at_in))
        /\ _flash_tp(inlet.composition, out.temperature, out.pressure,
                     AnswerAt(o, out.temperature, out.pressure, inlet)).ok

WarnsOfNrtl(r) == \E i \in DOMAIN r.logs : r.logs[i].kind = "WARNING_NRTL"

\* C18: every simulate run with property_package = NRTL that returns a
\* non-error result, whichever tier produced it, contains a warning log line
\* naming NRTL (the degradation to Peng-Robinson is never silent).
C18_NrtlWarningInEveryTier ==
    /\ pc = "done"
    /\ flowsheet_data.property_package = "NRTL"
    /\ ret.status \in {"success", "partial"}
    => WarnsOfNrtl(ret)

\* the full-engine tier returned a result for an NRTL flowsheet: it ran with
\* Peng-Robinson and its only log line is the completion message
C18_SilentFullEngine ==
    /\ pc = "done"
    /\ flowsheet_data.property_package = "NRTL"
    /\ ret.status = "success"
    /\ ret.engine = "dwsim"
    /\ ret.logs = DwsimLogs

\* ----------------------------------------------------------------- C19
\* every parameter the node is given is a number
Readable(n) ==
    \A k \in DOMAIN ParamsOf(n).num : ParamsOf(n).num[k].has => ParamsOf(n).num[k].num

\* the ports of n that hold an outlet
StoredPorts(n) == {k \in DOMAIN port_conditions : k[1] = n}

\* C19: for every equipment type, when the flash returns none (library
\* unavailable, unsupported compound, no convergence) or a secondary
\* (H,P)/(S,P)/bubble-point flash raises, the unit model still stores its
\* outlet stream(s) with a defined outlet temperature and records a normal
\* (non-error) result, so the run status stays "success".
C19_FlashFailuresAreNotNodeErrors ==
    /\ \A n \in DOMAIN equipment_results :
          Readable(n) =>
              /\ "error" \notin DOMAIN equipment_results[n]
              /\ "equipment_type" \in DOMAIN equipment_results[n]
              /\ StoredPorts(n) # {}
              /\ \A k \in StoredPorts(n) :
                    /\ "temperature" \in DOMAIN port_conditions[k]
                    /\ port_conditions[k].temperature[2] > 0
    /\ pc = "done" /\ (\A k \in DOMAIN nodes : Readable(nodes[k].id)) =>
          ret.status = "success"

\* the library answered the inlet flash of a Valve and raised in the (H,P)
\* flash that follows: the Valve kept the inlet temperature
C19_Witness ==
    /\ pc = "done" /\ ret.status = "success"
    /\ thermo.available
    /\ thermo[Eos(property_package)].at_in.ok
    /\ ~thermo[Eos(property_package)].sec.ok
    /\ \E n \in ComputedUnits({"Valve"}) :
          /\ InletOf(n).composition # <<>>
          /\ OutletOf(n, "out-1").temperature = InletOf(n).temperature

\* ------------------------------------------------------- the run route
\* schemas/simulation.py lines 49 and 59
NODE_LIMIT == 200

EDGE_LIMIT == 500

\* schemas/simulation.py line 28
_VALID_PROPERTY_PACKAGES == {"PengRobinson", "SRK", "NRTL"}

\* a node as a client sends it: has_id and has_type tell whether the keys
\* "id" and "type" are there
ClientNode(has_id, has_type, id) ==
    RawNode("nested", has_id, IF has_id THEN id ELSE EmptyId, "Heater", NoParams)
    @@ [has_type |-> has_type]

\* an edge as a client sends it
ClientEdge(has_id, has_source, has_target, s, t) ==
    Edge(IF has_source THEN s ELSE EmptyId, IF has_target THEN t ELSE EmptyId,
         "out-1", "in-1")
    @@ [has_id |-> has_id, has_source |-> has_source, has_target |-> has_target]

\* n nodes; with a defect, the first lacks a key
ClientNodes(n, defect) ==
    [i \in 1..n |-> ClientNode(~(i = 1 /\ defect = "id"), ~(i = 1 /\ defect = "type"), i)]

\* m edges from node 1 to node 1; with a defect, the first lacks a key
ClientEdges(m, defect) ==
    [i \in 1..m |-> ClientEdge(~(i = 1 /\ defect = "id"), ~(i = 1 /\ defect = "source"),
                               ~(i = 1 /\ defect = "target"), 1, 1)]

\* schemas/simulation.py lines 46-54
validate_nodes(v) ==
    /\ Len(v) <= NODE_LIMIT
    /\ \A i \in DOMAIN v : v[i].has_id

\* schemas/simulation.py lines 56-66
validate_edges(v) ==
    /\ Len(v) <= EDGE_LIMIT
    /\ \A i \in DOMAIN v : v[i].has_source /\ v[i].has_target

\* schemas/simulation.py lines 31-66: the body is accepted
SimulationRequest(body) ==
    /\ body.property_package \in _VALID_PROPERTY_PACKAGES
    /\ validate_nodes(body.nodes)
    /\ validate_edges(body.edges)

\* schemas/flowsheet.py lines 8-30: the body is accepted; there is no limit
\* on the number of nodes or edges
FlowsheetUpdate(body) ==
    /\ \A i \in DOMAIN body.nodes : body.nodes[i].has_id /\ body.nodes[i].has_type
    /\ \A i \in DOMAIN body.edges :
          body.edges[i].has_id /\ body.edges[i].has_source /\ body.edges[i].has_target

\* flowsheets.py lines 50-51, 55-56: model_dump() writes an edge's handles
\* under the field names source_handle and target_handle, so the stored
\* edge has no sourceHandle and no targetHandle key
DumpEdge(e) ==
    [k \in (DOMAIN e \ {"sourceHandle", "targetHandle"})
            \cup {"source_handle", "target_handle"} |->
        CASE k = "source_handle" -> EdgeGet(e, "sourceHandle", "None")
          [] k = "target_handle" -> EdgeGet(e, "targetHandle", "None")
          [] OTHER -> e[k]]

\* flowsheets.py lines 49, 55 and schemas/flowsheet.py lines 8-15: a node is
\* stored with the fields id, type, label, position and data; the parameters
\* of a node in the flat format are not among them
DumpNode(n) == IF n.enc = "flat" THEN [n EXCEPT !.parameters = "ok"] ELSE n

NoFlowsheet == [exists |-> FALSE, nodes |-> <<>>, edges |-> <<>>]

\* simulate has not been called
NoCall == [nodes |-> <<>>, edges |-> <<>>, property_package |-> ""]

\* the bodies of PUT /{project_id}/flowsheet: a small flowsheet, one with a
\* node or an edge more than a run request may carry, one without a key
UpdateBodies ==
    {[nodes |-> ClientNodes(1, ""), edges |-> ClientEdges(0, "")],
     [nodes |-> ClientNodes(NODE_LIMIT + 1, ""), edges |-> ClientEdges(0, "")],
     [nodes |-> ClientNodes(1, ""), edges |-> ClientEdges(EDGE_LIMIT + 1, "")],
     [nodes |-> ClientNodes(1, "type"), edges |-> ClientEdges(0, "")],
     [nodes |-> ClientNodes(1, ""), edges |-> ClientEdges(1, "id")]}

RunBody(f, ns, es, pp) ==
    [flowsheet_id |-> f, nodes |-> ns, edges |-> es, property_package |-> pp]

\* the bodies of POST /run: the well-formed ones, and those with one thing
\* wrong or at a limit
RunBodies ==
    {RunBody(f, ns, es, "PengRobinson") :
        f \in {"none", "unknown", "stored"},
        ns \in {ClientNodes(0, ""), ClientNodes(1, "")},
        es \in {ClientEdges(0, ""), ClientEdges(1, "")}}
    \cup {RunBody(f, ns, ClientEdges(0, ""), "PengRobinson") :
             f \in {"none", "stored"},
             ns \in {ClientNodes(1, "id"), ClientNodes(NODE_LIMIT, ""),
                     ClientNodes(NODE_LIMIT + 1, "")}}
    \cup {RunBody(f, ClientNodes(1, ""), es, "PengRobinson") :
             f \in {"none", "stored"},
             es \in {ClientEdges(1, "source"), ClientEdges(1, "target"),
                     ClientEdges(EDGE_LIMIT, ""), ClientEdges(EDGE_LIMIT + 1, "")}}
    \cup {RunBody("none", ClientNodes(1, ""), ClientEdges(0, ""), pp) :
             pp \in {"NRTL", "Custom"}}

\* flowsheets.py lines 31-60: PUT /{project_id}/flowsheet
update_flowsheet ==
    /\ \E body \in UpdateBodies, project \in BOOLEAN :
          route' = IF ~FlowsheetUpdate(body)
                   THEN [route EXCEPT !.called = FALSE, !.response = 422]
                   ELSE IF ~project
                   THEN [route EXCEPT !.called = FALSE, !.response = 404]
                   ELSE [route EXCEPT
                           !.called = FALSE, !.response = 200,
                           !.flowsheet =
                              [exists |-> TRUE, nodes |-> body.nodes,
                               edges |-> [i \in DOMAIN body.edges |->
                                            DumpEdge(body.edges[i])]]]
    /\ UNCHANGED <<flowsheet_data, use_dwsim, pc, engine_calls, frameVars, sortVars,
                   loopVars, ret, thermo>>

\* simulation.py lines 21-79: POST /run.  What simulate returns for the call
\* (or that it raises, line 51) is an input here.
run_simulation ==
    /\ \E body \in RunBodies, status \in {"success", "error"} :
       \E found \in {body.flowsheet_id = "stored" /\ route.flowsheet.exists} :
       \E ns \in {IF found /\ body.nodes = <<>> THEN route.flowsheet.nodes ELSE body.nodes},
          es \in {IF found /\ body.edges = <<>> THEN route.flowsheet.edges ELSE body.edges} :
          IF ~SimulationRequest(body)
          THEN /\ route' = [route EXCEPT !.called = FALSE, !.response = 422]
               /\ UNCHANGED flowsheet_data
          ELSE IF body.flowsheet_id # "none" /\ ~found
          THEN /\ route' = [route EXCEPT !.called = FALSE, !.response = 404]
               /\ UNCHANGED flowsheet_data
          ELSE IF ns = <<>>
          THEN /\ route' = [route EXCEPT !.called = FALSE, !.response = 400]
               /\ UNCHANGED flowsheet_data
          ELSE /\ flowsheet_data' = [nodes |-> ns, edges |-> es,
                                     property_package |-> body.property_package]
               /\ route' = [route EXCEPT
                              !.called = TRUE, !.response = 201,
                              !.results = IF found THEN @ \cup {status} ELSE @]
    /\ UNCHANGED <<use_dwsim, pc, engine_calls, frameVars, sortVars, loopVars, ret, thermo>>

\* no flowsheet is stored, no request has been handled
InitRoute ==
    /\ pc = "start"
    /\ engine_calls = <<>>
    /\ nodes = <<>> /\ edges = <<>> /\ property_package = ""
    /\ node_ids = <<>> /\ incoming = <<>> /\ outgoing = <<>>
    /\ queue = <<>> /\ result = <<>> /\ cycle_ids = <<>>
    /\ idx = 0
    /\ port_conditions = <<>>
    /\ equipment_results = <<>>
    /\ inlets_of = <<>>
    /\ logs = <<>>
    /\ has_errors = FALSE
    /\ ret = NoneRet
    /\ thermo = NoThermo
    /\ flowsheet_data = NoCall
    /\ use_dwsim = FALSE
    /\ route = [flowsheet |-> NoFlowsheet, results |-> {}, called |-> FALSE, response |-> 0]

NextRoute == update_flowsheet \/ run_simulation

SpecRoute == InitRoute /\ [][NextRoute]_vars

\* ----------------------------------------------------------------- C20
\* C20: every invocation of simulate made by the run route carries at most
\* 200 nodes and at most 500 edges, every node has an id and every edge has
\* source and target, whether the nodes/edges came from the request body or
\* were loaded from a stored flowsheet via flowsheet_id.
C20_ValidatedBeforeCore ==
    route.called =>
        /\ Len(flowsheet_data.nodes) <= 200
        /\ Len(flowsheet_data.edges) <= 500
        /\ \A i \in DOMAIN flowsheet_data.nodes : flowsheet_data.nodes[i].has_id
        /\ \A i \in DOMAIN flowsheet_data.edges :
              flowsheet_data.edges[i].has_source /\ flowsheet_data.edges[i].has_target

\* simulate was called with the nodes of a stored flowsheet that has more
\* nodes than a request may carry
C20_OversizedStoredFlowsheet ==
    /\ route.called
    /\ route.flowsheet.exists
    /\ flowsheet_data.nodes = route.flowsheet.nodes
    /\ Len(flowsheet_data.nodes) > NODE_LIMIT

\* ----------------------------------------------------------------- C21
\* the ports a node reads its inlets from: for each upstream edge the port
\* of the first edge from that source to the node (lines 745-753)
ReadPorts(n) ==
    {<<edges[k].source, MatchedHandle(edges[k].source, n)>> :
        k \in {j \in DOMAIN edges : edges[j].target = n}}

ValidStreamState(s) ==
    /\ RLe(Zero, s.mass_flow)
    /\ \A c \in DOMAIN s.composition : RLe(Zero, s.composition[c])
    /\ SumsToOne(s.composition)

\* the nodes that computed from a feed built from their own parameters
FeedNodes == {n \in DOMAIN inlets_of : inlets_of[n] # <<>> /\ Inlets(n, port_conditions) = <<>>}

\* C22: every stream state synthesized as a feed or stored as an outlet
\* port condition, for any node parameters and any equipment type, has
\* mass_flow >= 0 and a composition whose fractions are non-negative and
\* sum to 1.
C22_StreamStateInvariant ==
    /\ \A n \in FeedNodes : ValidStreamState(InletOf(n))
    /\ \A k \in DOMAIN port_conditions : ValidStreamState(port_conditions[k])

\* a Heater whose parameters give a negative feedFlowRate has computed from
\* a feed of negative mass flow and stored an outlet of negative mass flow
C22_NegativeFeedFlow ==
    \E n \in ComputedUnits({"Heater"}) \cap FeedNodes :
        /\ Param(ParamsOf(n), "feedFlowRate").has
        /\ RLt(Param(ParamsOf(n), "feedFlowRate").v, Zero)
        /\ InletOf(n).mass_flow = Param(ParamsOf(n), "feedFlowRate").v
        /\ RLt(OutletOf(n, "out-1").mass_flow, Zero)

\* ----------------------------------------------------------------- C23
\* no pseudo-component, no zero fraction, and the fractions sum to 1
CleanComposition(comp) ==
    /\ DOMAIN comp \cap _PSEUDO = {}
    /\ \A c \in DOMAIN comp : comp[c] # Zero
    /\ SumsToOne(comp)

\* C23: no composition stored as an outlet port condition contains the
\* pseudo-component "products" or an entry with fraction zero, and the
\* remaining fractions are renormalized to sum to 1; this holds for a
\* ConversionReactor at every conversion in [0%, 100%] and every inlet
\* composition.
C23_PseudoComponentsFiltered ==
    \A n \in ComputedUnits({"ConversionReactor"}) :
        CleanComposition(OutletOf(n, "out-1").composition)

\* a ConversionReactor that converts the whole of a one-compound inlet has
\* stored an outlet that consists of "products" alone
C23_FullConversion ==
    \E n \in ComputedUnits({"ConversionReactor"}) :
        /\ Param(ParamsOf(n), "conversion") = Given(Num(100))
        /\ CleanComposition(InletOf(n).composition)
        /\ Cardinality(DOMAIN InletOf(n).composition) = 1
        /\ \A c \in DOMAIN InletOf(n).composition :
              OutletOf(n, "out-1").composition = (c :> Zero) @@ ("products" :> One)

\* ------------------------------------------------- requests side by side
\* simulation.py line 18: one engine serves every request.  A request of
\* POST /run with a flowsheet_id is suspended at db.execute (line 27), at
\* engine.simulate (line 47) and at db.flush (line 66); simulate itself has
\* no suspension point inside (dwsim_engine.py lines 322-338 await only
\* coroutines that never wait), so a run that has begun ends before another
\* request moves.
Clients == {"a", "b", "c"}

\* flowsheets whose nodes can be computed in one order only: one node under
\* either property package, and two nodes in a chain
SingleFlowsheets ==
    {[nodes |-> ns, edges |-> <<>>, property_package |-> pp] :
        ns \in RunNodeLists(1), pp \in {"PengRobinson", "NRTL"}}

ChainFlowsheets ==
    {[nodes |-> ns, edges |-> PairsToEdges({<<1, 2>>}),
      property_package |-> "PengRobinson"] : ns \in RunNodeLists(2)}

Received(fs) == [step |-> "received", stored |-> fs, args |-> NoCall,
                 sim_output |-> NoneRet, results |-> NoneRet, overlap |-> {}]

\* simulation.py lines 26-36: the stored flowsheet has been read
LoadFlowsheet(c) ==
    /\ pc = "idle"
    /\ route[c].step = "received"
    /\ route' = [route EXCEPT ![c].step = "loaded",
                              ![c].args = route[c].stored]
    /\ UNCHANGED <<flowsheet_data, use_dwsim, pc, engine_calls, frameVars,
                   sortVars, loopVars, ret, thermo>>

InFlight(c) == {d \in Clients \ {c} : route[d].step \in {"loaded", "simulated"}}

\* simulation.py lines 46-51: the call of engine.simulate begins
CallSimulate(c) ==
    /\ pc = "idle"
    /\ route[c].step = "loaded"
    /\ flowsheet_data' = route[c].args
    /\ route' = [route EXCEPT ![c].step = "running", ![c].overlap = InFlight(c)]
    /\ pc' = "start"
    /\ UNCHANGED <<use_dwsim, engine_calls, frameVars, sortVars, loopVars,
                   ret, thermo>>

\* simulation.py lines 46-54: simulate returned, or raised and was caught
SimulateReturns(c) ==
    /\ pc \in {"done", "raised"}
    /\ route[c].step = "running"
    /\ route' = [route EXCEPT
                   ![c].step = "simulated",
                   ![c].sim_output = IF pc = "raised" THEN [status |-> "error"]
                                     ELSE ret]
    /\ pc' = "idle"
    /\ UNCHANGED <<flowsheet_data, use_dwsim, engine_calls, frameVars,
                   sortVars, loopVars, ret, thermo>>

\* simulation.py lines 59-68: the result row is written and returned
StoreResult(c) ==
    /\ pc = "idle"
    /\ route[c].step = "simulated"
    /\ route' = [route EXCEPT ![c].step = "stored",
                              ![c].results = route[c].sim_output]
    /\ UNCHANGED <<flowsheet_data, use_dwsim, pc, engine_calls, frameVars,
                   sortVars, loopVars, ret, thermo>>

\* clients a and c ask for the same flowsheet, b for any other
InitPair ==
    /\ pc = "idle"
    /\ engine_calls = <<>>
    /\ nodes = <<>> /\ edges = <<>> /\ property_package = ""
    /\ node_ids = <<>> /\ incoming = <<>> /\ outgoing = <<>>
    /\ queue = <<>> /\ result = <<>> /\ cycle_ids = <<>>
    /\ idx = 0
    /\ port_conditions = <<>>
    /\ equipment_results = <<>>
    /\ inlets_of = <<>>
    /\ logs = <<>>
    /\ has_errors = FALSE
    /\ ret = NoneRet
    /\ thermo = NoThermo
    /\ flowsheet_data = NoCall
    /\ use_dwsim = FALSE
    /\ \E x \in SingleFlowsheets, y \in ChainFlowsheets :
          route = [c \in Clients |-> Received(IF c = "b" THEN y ELSE x)]

NextPair ==
    \/ \E c \in Clients : LoadFlowsheet(c)
    \/ \E c \in Clients : CallSimulate(c)
    \/ Simulate
    \/ BasicBegin
    \/ SortInit
    \/ KahnStep
    \/ SortReturn
    \/ BeginLoop
    \/ SkipUnknown
    \/ ComputeNode
    \/ FailNode
    \/ Finish
    \/ \E c \in Clients : SimulateReturns(c)
    \/ \E c \in Clients : StoreResult(c)

SpecPair == InitPair /\ [][NextPair]_vars

\* ----------------------------------------------------------------- C24
\* C24: two runs of simulate on independent flowsheets that the service
\* interleaves at their suspension points on the one engine each return what
\* they return when executed alone: a run's result is a function of its own
\* flowsheet, whatever ran on the engine before it and whatever request was
\* suspended around it.
C24_RequestIndependence ==
    \A c \in Clients, d \in Clients :
        /\ route[c].step \in {"simulated", "stored"}
        /\ route[d].step \in {"simulated", "stored"}
        /\ route[c].args = route[d].args
        => route[c].sim_output = route[d].sim_output

\* a ran on the fresh engine, b ran next on another flowsheet and logged
\* something else, c ran last while a and b were suspended before their
\* flush, and c got what a got
C24_Witness ==
    /\ \A c \in Clients : route[c].step = "stored"
    /\ route["a"].overlap = {"b", "c"}
    /\ route["b"].overlap = {"a", "c"}
    /\ route["c"].overlap = {"a", "b"}
    /\ route["a"].results = route["c"].results
    /\ route["a"].results.status = "success"
    /\ route["b"].results.status = "partial"
    /\ route["b"].results.logs # route["a"].results.logs
    /\ route["a"].results.logs # <<>>

\* ----------------------------------------------------------------- C25
\* the duty a Heater or Cooler is asked for, in kW as it is reported
AskedDuty(n) ==
    LET d == Param(ParamsOf(n), "duty").v
    IN  IF node_map(n).type = "Cooler" THEN <<-Abs(d[1]), d[2]>> ELSE d

\* C25: whenever the parameters of a Heater or Cooler specify a duty (any
\* value) and no outletTemperature, the reported duty equals the specified
\* duty (non-positive for a Cooler); the default change of +50 K / -50 K is
\* applied only when neither is specified.
C25_HeaterCoolerModeSelection ==
    \A n \in ComputedUnits({"Heater", "Cooler"}) :
        /\ ~Param(ParamsOf(n), "outletTemperature").has
        /\ Param(ParamsOf(n), "duty").has
        => equipment_results[n].duty = AskedDuty(n)

\* a Heater asked for a duty of 0 kW and no outlet temperature heats its
\* feed by 50 K and reports the duty of that
C25_ZeroDutyHeatsByDefault ==
    \E n \in ComputedUnits({"Heater"}) :
        /\ ~Param(ParamsOf(n), "outletTemperature").has
        /\ Param(ParamsOf(n), "duty") = Given(Zero)
        /\ OutletOf(n, "out-1").temperature = RAdd(InletOf(n).temperature, Num(50))
        /\ RLt(Zero, equipment_results[n].duty)

\* a Heater or Cooler asked for a duty other than 0 reports it
C25_NonZeroDutyReported ==
    \A n \in ComputedUnits({"Heater", "Cooler"}) :
        /\ ~Param(ParamsOf(n), "outletTemperature").has
        /\ Param(ParamsOf(n), "duty").has
        /\ Param(ParamsOf(n), "duty").v # Zero
        => equipment_results[n].duty = AskedDuty(n)

\* ------------------------------------------------------ capability flags
\* a run of simulate under each combination of what could be imported at
\* module load (lines 20-73): the full engine, thermo, CoolProp
InitTier ==
    /\ \E x \in SingleFlowsheets \cup ChainFlowsheets : flowsheet_data = x
    /\ use_dwsim \in BOOLEAN
    /\ \E t \in BOOLEAN, c \in BOOLEAN : thermo = Capabilities(t, c)
    /\ pc = "start"
    /\ engine_calls = <<>>
    /\ nodes = <<>> /\ edges = <<>> /\ property_package = ""
    /\ node_ids = <<>> /\ incoming = <<>> /\ outgoing = <<>>
    /\ queue = <<>> /\ result = <<>> /\ cycle_ids = <<>>
    /\ idx = 0
    /\ port_conditions = <<>>
    /\ equipment_results = <<>>
    /\ inlets_of = <<>>
    /\ logs = <<>>
    /\ has_errors = FALSE
    /\ ret = NoneRet
    /\ route = NoRoute

SpecTier == InitTier /\ [][Next]_vars

\* ----------------------------------------------------------------- C26
ThermoNames == {"thermo_fallback", "thermo_coolprop_fallback"}

\* C26: for every combination of the capability flags the engine field of a
\* result names the tier that produced it: "dwsim" only when the full engine
\* completed, and otherwise the basic name exactly when the Flash Engine is
\* unavailable and a thermo-augmented name exactly when it is available.
C26_ReportedTierName ==
    (pc = "done" /\ "engine" \in DOMAIN ret) =>
        /\ ret.engine = "dwsim" => engine_calls = <<"dwsim">>
        /\ ret.engine # "dwsim" =>
              /\ ret.engine = "basic" <=> ~thermo.available
              /\ ret.engine \in ThermoNames <=> thermo.available

\* with CoolProp installed and thermo not, a result computed from the
\* correlations alone carries a thermo-augmented name
C26_CoolPropWithoutThermo ==
    /\ pc = "done"
    /\ "engine" \in DOMAIN ret
    /\ ~thermo.available /\ thermo.coolprop
    /\ ret.engine = "thermo_coolprop_fallback"

\* without CoolProp the name follows the Flash Engine
C26_NameWithoutCoolProp ==
    (pc = "done" /\ "engine" \in DOMAIN ret /\ ~thermo.coolprop) =>
        /\ ret.engine = "dwsim" => engine_calls = <<"dwsim">>
        /\ ret.engine # "dwsim" =>
              ret.engine = (IF thermo.available THEN "thermo_fallback" ELSE "basic")

\* ----------------------------------------------------------------- C27
\* the stream stored at a port of n is the inlet with its mass flow and
\* composition
Carries(n, port, inlet) ==
    /\ OutletOf(n, port).mass_flow = inlet.stream.mass_flow
    /\ OutletOf(n, port).composition = _clean_composition(inlet.stream.composition)

TwoInletExchangers ==
    {n \in ComputedUnits({"HeatExchanger"}) :
        Len(inlets_of[n]) = 2 /\ Inlets(n, port_conditions) = inlets_of[n]}

\* C27: a HeatExchanger with two connected inlets assigns each inlet to
\* exactly one side, by target handle in-hot / in-cold when present and by
\* order otherwise: one inlet leaves on out-hot and the other on out-cold
\* with its mass flow and composition, the one that entered on in-hot on
\* out-hot and the one that entered on in-cold on out-cold, also when the
\* sides are swapped internally.
C27_HeatExchangerPortMapping ==
    \A n \in TwoInletExchangers :
        LET ins == inlets_of[n] IN
        /\ \E i \in 1..2 : Carries(n, "out-hot", ins[i]) /\ Carries(n, "out-cold", ins[3 - i])
        /\ \A i \in 1..2 :
              /\ (ins[i].handle = "in-hot" /\ ins[3 - i].handle # "in-hot")
                    => Carries(n, "out-hot", ins[i])
              /\ (ins[i].handle = "in-cold" /\ ins[3 - i].handle # "in-cold")
                    => Carries(n, "out-cold", ins[i])

\* the second inlet alone names its side: both outlets carry the second
\* inlet and the first inlet leaves on neither
C27_OneHandleBothSides ==
    \E n \in TwoInletExchangers :
        LET ins == inlets_of[n] IN
        /\ ins[1].handle = "in-1" /\ ins[2].handle = "in-hot"
        /\ ins[1].stream.mass_flow # ins[2].stream.mass_flow
        /\ Carries(n, "out-hot", ins[2])
        /\ Carries(n, "out-cold", ins[2])

\* when both inlets name their sides or neither does, the mapping holds,
\* swapped or not
C27_MappingWithBothOrNoHandles ==
    \A n \in TwoInletExchangers :
        LET ins == inlets_of[n] IN
        {ins[1].handle, ins[2].handle} \in {{"in-hot", "in-cold"}, {"in-1", "in-2"}} =>
            \E i \in 1..2 :
                /\ ins[i].handle # "in-cold" /\ ins[3 - i].handle # "in-hot"
                /\ (ins[1].handle = "in-1" => i = 1)
                /\ Carries(n, "out-hot", ins[i])
                /\ Carries(n, "out-cold", ins[3 - i])

\* the cold port received the hotter stream and the mapping held
C27_SwappedKeepsPorts ==
    \E n \in TwoInletExchangers :
        LET ins == inlets_of[n] IN
        /\ ins[1].handle = "in-hot" /\ ins[2].handle = "in-cold"
        /\ RLt(ins[1].stream.temperature, ins[2].stream.temperature)
        /\ ins[1].stream.mass_flow # ins[2].stream.mass_flow
        /\ Carries(n, "out-hot", ins[1])
        /\ Carries(n, "out-cold", ins[2])

\* ----------------------------------------------------------------- C28
\* lines 745-753: the port the target of edge k read through it, when the
\* port was stored by then
ConsumedPort(k) == <<edges[k].source, MatchedHandle(edges[k].source, edges[k].target)>>

Consumed(k) ==
    /\ edges[k].target \in DOMAIN inlets_of
    /\ ConsumedPort(k) \in StoredBefore(edges[k].target)
    /\ \E i \in DOMAIN inlets_of[edges[k].target] :
          inlets_of[edges[k].target][i].stream = port_conditions[ConsumedPort(k)]

\* C28: for every edge that has an entry in stream_results, the reported
\* stream is the stream state the edge's target node consumed as its inlet
\* through that edge; the source port assumed for an edge that carries no
\* sourceHandle is the same in stream reporting and in inlet resolution.
C28_ReportedStreamsAreConsumed ==
    (pc = "done" /\ "stream_results" \in DOMAIN ret) =>
        \A k \in DOMAIN ret.stream_results :
            /\ Consumed(k)
            /\ ret.stream_results[k] = StreamSummary(port_conditions[ConsumedPort(k)])

\* one edge without sourceHandle from the Splitter to the Mixer: the edge is
\* reported with the Splitter's out-1 stream, and the Mixer computed from
\* its own feed
C28_ReportedButNotConsumed ==
    /\ pc = "done" /\ "stream_results" \in DOMAIN ret
    /\ edges = <<EdgeWithoutSourceHandle(1, 2, "in-1")>>
    /\ ret.stream_results[1] = StreamSummary(port_conditions[<<1, "out-1">>])
    /\ inlets_of[2] = <<[stream |-> FeedStream(2), handle |-> ""]>>

\* the flowsheet has no cycle, every edge carries its sourceHandle and no
\* two edges join the same two nodes
PlainWiring ==
    /\ cycle_ids = <<>>
    /\ \A k \in DOMAIN edges : "sourceHandle" \in DOMAIN edges[k]
    /\ \A j, k \in DOMAIN edges :
          (edges[j].source = edges[k].source /\ edges[j].target = edges[k].target) => j = k

C28_PlainWiringReportedAsConsumed ==
    (pc = "done" /\ "stream_results" \in DOMAIN ret /\ PlainWiring) =>
        \A k \in DOMAIN ret.stream_results :
            /\ Consumed(k)
            /\ ret.stream_results[k] = StreamSummary(port_conditions[ConsumedPort(k)])

\* ------------------------------------------- one flowsheet, run twice
\* the flowsheets of three nodes whose edges form no cycle
ThreeNodes == {1, 2, 3}

AcyclicFlowsheets ==
    {[nodes |-> ns, edges |-> PairsToEdges(E), property_package |-> "PengRobinson"] :
        ns \in RunNodeLists(Cardinality(ThreeNodes)),
        E \in {F \in SUBSET (ThreeNodes \X ThreeNodes) : Acyclic(F)}}

NoFirstRun == [step |-> "first"]

InitOrder ==
    /\ \E x \in AcyclicFlowsheets : flowsheet_data = x
    /\ use_dwsim = FALSE
    /\ pc = "start"
    /\ engine_calls = <<>>
    /\ nodes = <<>> /\ edges = <<>> /\ property_package = ""
    /\ node_ids = <<>> /\ incoming = <<>> /\ outgoing = <<>>
    /\ queue = <<>> /\ result = <<>> /\ cycle_ids = <<>>
    /\ idx = 0
    /\ port_conditions = <<>>
    /\ equipment_results = <<>>
    /\ inlets_of = <<>>
    /\ logs = <<>>
    /\ has_errors = FALSE
    /\ ret = NoneRet
    /\ thermo = NoThermo
    /\ route = NoFirstRun

\* the first run is over: what it returned and what it computed are kept,
\* and simulate is called on the same flowsheet again
SimulateAgain ==
    /\ pc = "done"
    /\ route = NoFirstRun
    /\ route' = [step |-> "second", ret |-> ret, sorted_ids |-> result,
                 port_conditions |-> port_conditions, inlets_of |-> inlets_of]
    /\ pc' = "start"
    /\ UNCHANGED <<flowsheet_data, use_dwsim, engine_calls, frameVars, sortVars,
                   loopVars, ret, thermo>>

NextOrder ==
    \/ Simulate
    \/ BasicBegin
    \/ SortInit
    \/ KahnStep
    \/ SortReturn
    \/ BeginLoop
    \/ SkipUnknown
    \/ ComputeNode
    \/ FailNode
    \/ Finish
    \/ SimulateAgain

SpecOrder == InitOrder /\ [][NextOrder]_vars

\* ----------------------------------------------------------------- C29
SecondRunOver == pc = "done" /\ route.step = "second"

LogBag(ls) == [l \in Range(ls) |-> Cardinality({k \in DOMAIN ls : ls[k] = l})]

\* C29: for an acyclic flowsheet the results of a self-contained run do not
\* depend on which ready node the sequencer takes first: two runs that
\* process the nodes in different dependency-respecting orders read the same
\* inlets at every node, store the same outlets and return the same
\* equipment_results, stream_results and status; only the order of the log
\* lines may differ.
C29_OrderIndependence ==
    SecondRunOver =>
        /\ inlets_of = route.inlets_of
        /\ port_conditions = route.port_conditions
        /\ ret.equipment_results = route.ret.equipment_results
        /\ ret.stream_results = route.ret.stream_results
        /\ ret.status = route.ret.status
        /\ ret.convergence_info = route.ret.convergence_info
        /\ LogBag(ret.logs) = LogBag(route.ret.logs)

\* two sources feed the third node, one of them fails; the two runs took
\* the sources in different orders and wrote their log lines in different
\* orders
C29_Witness ==
    /\ SecondRunOver
    /\ Len(edges) >= 2
    /\ result # route.sorted_ids
    /\ ret.logs # route.ret.logs
    /\ ret.status = "partial"
    /\ \E n \in DOMAIN inlets_of : Len(inlets_of[n]) = 1 /\ inlets_of[n][1].stream # FeedStream(n)

\* --------------------------------------------------- save, then simulate
\* the edges a caller can draw from the Splitter to the Mixer
ForwardEdges == {e \in WireEdges : e.source = 1 /\ e.target = 2}

\* the Splitter in the format of the flowsheet editor, the Mixer in either
\* format, with parameters its model accepts or not
RoundTripNodes ==
    {<<RawNode("nested", TRUE, 1, "Splitter", "ok"), RawNode(enc, TRUE, 2, "Mixer", params)>> :
        enc \in {"nested", "flat"}, params \in {"ok", "bad"}}

NotRun == [ret |-> NoneRet, inlets_of |-> <<>>]

InitRoundTrip ==
    /\ \E ns \in RoundTripNodes, es \in SeqsUpTo(ForwardEdges, Cardinality(SourceHandles)) :
          route = [body |-> [nodes |-> ns, edges |-> es],
                   flowsheet |-> NoFlowsheet, running |-> "",
                   direct |-> NotRun, by_id |-> NotRun]
    /\ flowsheet_data = NoCall
    /\ use_dwsim = FALSE
    /\ pc = "idle"
    /\ engine_calls = <<>>
    /\ nodes = <<>> /\ edges = <<>> /\ property_package = ""
    /\ node_ids = <<>> /\ incoming = <<>> /\ outgoing = <<>>
    /\ queue = <<>> /\ result = <<>> /\ cycle_ids = <<>>
    /\ idx = 0
    /\ port_conditions = <<>>
    /\ equipment_results = <<>>
    /\ inlets_of = <<>>
    /\ logs = <<>>
    /\ has_errors = FALSE
    /\ ret = NoneRet
    /\ thermo = NoThermo

\* flowsheets.py lines 31-60: the flowsheet of the body is stored
SaveFlowsheet ==
    /\ pc = "idle"
    /\ ~route.flowsheet.exists
    /\ route' = [route EXCEPT !.flowsheet =
                   [exists |-> TRUE,
                    nodes |-> [i \in DOMAIN route.body.nodes |-> DumpNode(route.body.nodes[i])],
                    edges |-> [i \in DOMAIN route.body.edges |-> DumpEdge(route.body.edges[i])]]]
    /\ UNCHANGED <<flowsheet_data, use_dwsim, pc, engine_calls, frameVars,
                   sortVars, loopVars, ret, thermo>>

\* simulation.py lines 22-50 without flowsheet_id: the body's nodes and edges
RunDirect ==
    /\ pc = "idle"
    /\ route.direct = NotRun
    /\ flowsheet_data' = [nodes |-> route.body.nodes, edges |-> route.body.edges,
                          property_package |-> "PengRobinson"]
    /\ route' = [route EXCEPT !.running = "direct"]
    /\ pc' = "start"
    /\ UNCHANGED <<use_dwsim, engine_calls, frameVars, sortVars, loopVars, ret, thermo>>

\* simulation.py lines 26-50 with flowsheet_id and no nodes or edges in the
\* body: those of the stored flowsheet
RunStored ==
    /\ pc = "idle"
    /\ route.flowsheet.exists
    /\ route.by_id = NotRun
    /\ flowsheet_data' = [nodes |-> route.flowsheet.nodes, edges |-> route.flowsheet.edges,
                          property_package |-> "PengRobinson"]
    /\ route' = [route EXCEPT !.running = "by_id"]
    /\ pc' = "start"
    /\ UNCHANGED <<use_dwsim, engine_calls, frameVars, sortVars, loopVars, ret, thermo>>

\* simulation.py lines 46-79: the run is over and its output is returned
RunReturns ==
    /\ pc \in {"done", "raised"}
    /\ route' = [route EXCEPT
                   ![route.running] =
                      [ret |-> IF pc = "raised" THEN [status |-> "error"] ELSE ret,
                       inlets_of |-> inlets_of],
                   !.running = ""]
    /\ pc' = "idle"
    /\ UNCHANGED <<flowsheet_data, use_dwsim, engine_calls, frameVars, sortVars,
                   loopVars, ret, thermo>>

NextRoundTrip ==
    \/ SaveFlowsheet
    \/ RunDirect
    \/ RunStored
    \/ Simulate
    \/ BasicBegin
    \/ SortInit
    \/ KahnStep
    \/ SortReturn
    \/ BeginLoop
    \/ ComputeNode
    \/ FailNode
    \/ Finish
    \/ RunReturns

SpecRoundTrip == InitRoundTrip /\ [][NextRoundTrip]_vars

\* ----------------------------------------------------------------- C30
BothRan == route.direct # NotRun /\ route.by_id # NotRun

\* C30: a flowsheet saved through the update route and then simulated by
\* flowsheet_id is wired like the same nodes and edges passed directly in
\* the request: every edge keeps its source and target port handles under
\* the keys the engine reads, and both runs give the same stream_results and
\* equipment_results.
C30_SaveThenSimulate ==
    /\ route.flowsheet.exists =>
          \A i \in DOMAIN route.body.edges :
              /\ AdjacencyHandle(route.flowsheet.edges[i]) = AdjacencyHandle(route.body.edges[i])
              /\ EdgeGet(route.flowsheet.edges[i], "targetHandle", "")
                    = EdgeGet(route.body.edges[i], "targetHandle", "")
    /\ BothRan =>
          /\ route.by_id.ret.stream_results = route.direct.ret.stream_results
          /\ route.by_id.ret.equipment_results = route.direct.ret.equipment_results

\* one edge from the Splitter's out-2 to the Mixer: passed directly the
\* Mixer reads out-2 and the edge reports out-2; loaded from storage the
\* Mixer computes from its own feed and the edge reports out-1
C30_StoredEdgeLosesPorts ==
    /\ BothRan
    /\ route.body.edges = <<Edge(1, 2, "out-2", "in-1")>>
    /\ route.direct.inlets_of[2] = <<[stream |-> [origin |-> 1, port |-> "out-2"], handle |-> "in-1"]>>
    /\ route.by_id.inlets_of[2] = <<[stream |-> FeedStream(2), handle |-> ""]>>
    /\ route.direct.ret.stream_results[1] = [origin |-> 1, port |-> "out-2"]
    /\ route.by_id.ret.stream_results[1] = [origin |-> 1, port |-> "out-1"]

\* a flowsheet in the editor's format whose edges carry no sourceHandle is
\* computed the same way from storage as from the request
C30_SameWithoutSourceHandles ==
    (/\ BothRan
     /\ \A i \in DOMAIN route.body.nodes : route.body.nodes[i].enc = "nested"
     /\ \A i \in DOMAIN route.body.edges : "sourceHandle" \notin DOMAIN route.body.edges[i]) =>
        /\ route.by_id.ret.stream_results = route.direct.ret.stream_results
        /\ route.by_id.ret.equipment_results = route.direct.ret.equipment_results
        /\ [n \in DOMAIN route.by_id.inlets_of |->
              [k \in DOMAIN route.by_id.inlets_of[n] |-> route.by_id.inlets_of[n][k].stream]]
           = [n \in DOMAIN route.direct.inlets_of |->
                [k \in DOMAIN route.direct.inlets_of[n] |-> route.direct.inlets_of[n][k].stream]]

====
